---- MODULE Spec2Model ----
(***************************************************************************)
(* MovieMate: the recommendation engine (services/recommendationService.js) *)
(* and the catalog query layer (services/movieApiService.js, config/api.js).*)
(* One module, several specifications: each specification exercises one    *)
(* subsystem and leaves the state of the others at its initial value.      *)
(***************************************************************************)
EXTENDS Integers, Sequences, FiniteSets, TLC

VARIABLES
    now,            \* Date.now(), in clock ticks
    requestCount,   \* config/api.js: let requestCount
    windowStart,    \* config/api.js: let windowStart
    rlPc,           \* per caller of checkRateLimit: "idle" | "waiting"
    rlWake,         \* per caller: the time its setTimeout fires
    rlDoneAt,       \* history: number of checkRateLimit calls completed at each time
    rlDoneBy,       \* history: number of checkRateLimit calls completed per caller
    rlCalls,        \* history: number of checkRateLimit calls started
    apiCache,       \* movieApiService.js: const apiCache = new Map()
    cacheBorn,      \* history: per key, its last setCache (time, data, caller)
    ops,            \* the catalog operations in progress, per slot
    catFetches,     \* history: requests started, per caller of checkRateLimit
    opsStarted,     \* history: number of catalog operations called
    preferencesCache, \* recommendationService.js: const preferencesCache = new Map()
    nextRef,        \* the next object the heap allocates
    prefCalls,      \* history: the calls of extractUserPreferences, with what they returned
    scoring,        \* the last call of calculateRecommendationScore
    rec,            \* the call of getRecommendedMovies in progress, or the last one
    recCalls,       \* history: number of getRecommendedMovies calls
    classified,     \* the last call of isMovieReleased
    filtered        \* the last response a catalog search turned into its result

rateVars == <<requestCount, windowStart, rlPc, rlWake, rlDoneAt, rlDoneBy, rlCalls>>
catVars == <<apiCache, cacheBorn, ops, catFetches, opsStarted>>
recVars == <<preferencesCache, nextRef, prefCalls, scoring, rec, recCalls>>
relVars == <<classified, filtered>>
vars == <<now, rateVars, catVars, recVars, relVars>>

Max(a, b) == IF a >= b THEN a ELSE b
Min(a, b) == IF a <= b THEN a ELSE b

RECURSIVE SumTo(_, _, _)
SumTo(f, lo, hi) == IF lo > hi THEN 0 ELSE f[lo] + SumTo(f, lo + 1, hi)

(***************************************************************************)
(* config/api.js: checkRateLimit.  The quota and the window are scaled:    *)
(* RATE_LIMIT_REQUESTS stands for 40 requests and RATE_LIMIT_WINDOW for    *)
(* 10000 ms; one clock tick is RATE_LIMIT_WINDOW-th of the window.         *)
(***************************************************************************)
RATE_LIMIT_REQUESTS == 2
RATE_LIMIT_WINDOW == 3
NumCallers == 3
MaxTime == 7
MaxCalls == 6

Callers == 1..NumCallers
Times == 0..MaxTime

RateInitOver(callers) ==
    /\ requestCount = 0
    /\ windowStart = 0
    /\ rlPc = [c \in callers |-> "idle"]
    /\ rlWake = [c \in callers |-> 0]
    /\ rlDoneAt = [t \in Times |-> 0]
    /\ rlDoneBy = [c \in callers |-> 0]
    /\ rlCalls = 0

\* The module-level state of config/api.js with the bookkeeping of its callers.
RlState ==
    [ requestCount |-> requestCount, windowStart |-> windowStart, pc |-> rlPc,
      wake |-> rlWake, doneBy |-> rlDoneBy ]

SetRl(L) ==
    /\ requestCount' = L.requestCount
    /\ windowStart' = L.windowStart
    /\ rlPc' = L.pc
    /\ rlWake' = L.wake
    /\ rlDoneBy' = L.doneBy

\* requestCount++ and the return of checkRateLimit to caller c at time t.
RlCount(L, c, t) ==
    [L EXCEPT !.requestCount = @ + 1,
              !.wake[c] = 0,
              !.pc[c] = "idle",
              !.doneBy[c] = @ + 1]

\* checkRateLimit called by c at time t, up to its await (or to its return when
\* it does not wait): the window resets when strictly more than the window has
\* passed; an exhausted quota with time left in the window suspends the caller.
checkRateLimit(L, c, t) ==
    LET expired  == t - L.windowStart > RATE_LIMIT_WINDOW
        L1       == IF expired
                    THEN [L EXCEPT !.requestCount = 0, !.windowStart = t]
                    ELSE L
        waitTime == RATE_LIMIT_WINDOW - (t - L1.windowStart)
    IN IF L1.requestCount >= RATE_LIMIT_REQUESTS /\ waitTime > 0
       THEN [L1 EXCEPT !.pc[c] = "waiting", !.wake[c] = t + waitTime]
       ELSE RlCount(L1, c, t)

\* A resume that resets the counter and leaves the window where it started.
checkRateLimitResumedInWindow(L, c, t) ==
    RlCount([L EXCEPT !.requestCount = 0], c, t)

\* checkRateLimit resumed after its setTimeout: a fresh window, then the count.
checkRateLimitResumed(L, c, t) ==
    RlCount([L EXCEPT !.requestCount = 0, !.windowStart = t], c, t)

\* A faulty variant of the callers: checkRateLimit() is called without await.
LimiterNotAwaited(c) == rlPc[c] \in {"idle", "waiting"}

\* await checkRateLimit() has returned to caller c.
LimiterReturned(c) == rlPc[c] = "idle"

\* The history of the limiter alone: calls started, and completions per instant.
Completed(c) == rlDoneBy'[c] > rlDoneBy[c]
NoteCompletion(c) ==
    rlDoneAt' = IF Completed(c) THEN [rlDoneAt EXCEPT ![now] = @ + 1] ELSE rlDoneAt

CheckRateLimitCall(c) ==
    /\ rlPc[c] = "idle"
    /\ rlCalls < MaxCalls
    /\ SetRl(checkRateLimit(RlState, c, now))
    /\ rlCalls' = rlCalls + 1
    /\ NoteCompletion(c)
    /\ UNCHANGED now

CheckRateLimitResume(c) ==
    /\ rlPc[c] = "waiting"
    /\ rlWake[c] <= now
    /\ SetRl(checkRateLimitResumed(RlState, c, now))
    /\ NoteCompletion(c)
    /\ UNCHANGED <<now, rlCalls>>

\* Time passes; a timer that is due fires before the clock moves on.
TimerDue == \E c \in DOMAIN rlPc : rlPc[c] = "waiting" /\ rlWake[c] <= now
Tick ==
    /\ now < MaxTime
    /\ ~TimerDue
    /\ now' = now + 1
    /\ UNCHANGED rateVars

RateNext ==
    \/ \E c \in Callers : CheckRateLimitCall(c) /\ UNCHANGED <<catVars, recVars, relVars>>
    \/ \E c \in Callers : CheckRateLimitResume(c) /\ UNCHANGED <<catVars, recVars, relVars>>
    \/ Tick /\ UNCHANGED <<catVars, recVars, relVars>>

(***************************************************************************)
(* movieApiService.js: data of the catalog client.                         *)
(* A JS undefined/null number is Undef; a missing string is "".  Ratings   *)
(* are in tenths (80 is 8.0).  A date is a day number; the instant of a    *)
(* day's UTC midnight is 24 * day hours.                                   *)
(***************************************************************************)
Undef == 0 - 1

\* config/api.js GENRE_MAP: a display genre maps to one id or to a list of ids.
GENRE_MAP ==
    [ g \in {"Bilim Kurgu", "Komedi", "Aksiyon/Macera", "Animasyon", "Suç",
             "Drama", "Gizem", "Belgesel", "Korku"} |->
        CASE g = "Bilim Kurgu"    -> <<878, 14>>
          [] g = "Komedi"         -> <<35>>
          [] g = "Aksiyon/Macera" -> <<28, 12>>
          [] g = "Animasyon"      -> <<16>>
          [] g = "Suç"            -> <<80>>
          [] g = "Drama"          -> <<18, 10749>>
          [] g = "Gizem"          -> <<9648, 53>>
          [] g = "Belgesel"       -> <<99>>
          [] g = "Korku"          -> <<27>> ]

\* GENRE_MAP[genre] is falsy for an unmapped genre and for "Tüm Filmler" (null).
GenreMapped(genre) == genre \in DOMAIN GENRE_MAP
IsMergedCategory(genre) == Len(GENRE_MAP[genre]) > 1

mapTMDBGenreToLocal(genreId) ==
    CASE genreId \in {878, 14}   -> "Bilim Kurgu"
      [] genreId = 35            -> "Komedi"
      [] genreId \in {28, 12}    -> "Aksiyon/Macera"
      [] genreId = 16            -> "Animasyon"
      [] genreId = 80            -> "Suç"
      [] genreId \in {18, 10749} -> "Drama"
      [] genreId \in {9648, 53}  -> "Gizem"
      [] genreId = 99            -> "Belgesel"
      [] genreId = 27            -> "Korku"
      [] OTHER                   -> "Bilinmeyen"

getGenreFromTMDBMovie(tmdbMovie) ==
    IF Len(tmdbMovie.genre_ids) > 0
    THEN mapTMDBGenreToLocal(tmdbMovie.genre_ids[1])
    ELSE "Bilinmeyen"

Range(seq) == {seq[i] : i \in DOMAIN seq}
Take(seq, n) == SubSeq(seq, 1, Min(Len(seq), n))

\* The calendar: an instant is counted in hours UTC, a date in days; the local
\* clock is tz hours ahead of UTC, and a year has DaysPerYear days.
DaysPerYear == 6
LocalDay(instant, tz) == (instant + tz) \div 24
YearOfDay(day) == day \div DaysPerYear

\* vote_average.toFixed(1): hundredths rounded to tenths.
toFixed1(v) == IF v = Undef THEN 0 ELSE (v + 5) \div 10

\* convertTMDBToMovieFormat(tmdbMovie) for a record of a discover/search list
\* or of a details response (director and cast come with the details only).
convertTMDBToMovieFormat(tmdbMovie) ==
    [ id                |-> <<"tmdb", tmdbMovie.id>>,
      title             |-> tmdbMovie.title,
      release_date      |-> tmdbMovie.release_date,
      year              |-> IF tmdbMovie.release_date # Undef
                            THEN YearOfDay(tmdbMovie.release_date) ELSE Undef,
      genre             |-> getGenreFromTMDBMovie(tmdbMovie),
      genre_ids         |-> tmdbMovie.genre_ids,
      director          |-> tmdbMovie.director,
      cast              |-> Take(tmdbMovie.cast, 5),
      imdb              |-> toFixed1(tmdbMovie.vote_average),
      tmdbId            |-> tmdbMovie.id,
      isLocal           |-> FALSE,
      original_language |-> tmdbMovie.original_language ]

\* isMovieReleased at an instant, in a time zone.  new Date(release_date) is
\* the date's UTC midnight; today.setHours(0,0,0,0) is the local midnight;
\* new Date().getFullYear() is the local year.
LocalMidnight(instant, tz) == ((instant + tz) \div 24) * 24 - tz
isMovieReleasedAt(movie, instant, tz) ==
    IF movie.release_date # Undef
    THEN 24 * movie.release_date <= LocalMidnight(instant, tz)
    ELSE IF movie.year # Undef
    THEN movie.year <= YearOfDay(LocalDay(instant, tz))
    ELSE TRUE

\* The clock of the catalog runs: noon UTC of day 10, in a UTC browser.
CatInstant == 10 * 24 + 12
CatTz == 0
isMovieReleased(movie) == isMovieReleasedAt(movie, CatInstant, CatTz)

\* hasIncompatibleGenres(movie, selectedGenreId): the genre pairs that are not
\* to be shown under the selected genre.
hasIncompatibleGenres(movie, selectedGenreId) ==
    LET genreIds == Range(movie.genre_ids)
    IN /\ Len(movie.genre_ids) > 1
       /\ selectedGenreId \in genreIds
       /\ \/ selectedGenreId = 16 /\ genreIds \cap {18, 27, 80, 99, 9648} # {}
          \/ selectedGenreId = 27 /\ genreIds \cap {16, 10751, 35, 10402} # {}
          \/ selectedGenreId = 18 /\ 16 \in genreIds
          \/ selectedGenreId = 16 /\ 99 \in genreIds
          \/ selectedGenreId = 99 /\ 16 \in genreIds

\* blockedTitles.some(b => title.toLowerCase().includes(b)) over the titles of
\* the model: the titles that contain a blocked literal in some letter case.
BlockedTitleSet == {"Nude Beach", "SUCCUBUS"}
TitleBlocked(title) == title \in BlockedTitleSet

\* originalLanguage.toLowerCase() === 'tr' or 'es'
LanguageExcluded(lang) == lang \in {"tr", "TR", "es", "ES"}

\* The filter of searchMoviesByGenre over one converted movie.
GenreFilterKeeps(movie, genreIdArray) ==
    /\ Len(movie.genre_ids) > 0
    /\ isMovieReleased(movie)
    /\ ~TitleBlocked(movie.title)
    /\ ~LanguageExcluded(movie.original_language)
    /\ 10402 \notin Range(movie.genre_ids)
    /\ (35 \in Range(genreIdArray) \/ 10751 \notin Range(movie.genre_ids))
    /\ Range(genreIdArray) \cap Range(movie.genre_ids) # {}

\* The filter of searchMoviesByDirector / searchMoviesByActor.
PersonFilterKeeps(movie) ==
    /\ isMovieReleased(movie)
    /\ ~TitleBlocked(movie.title)
    /\ ~LanguageExcluded(movie.original_language)
    /\ 10402 \notin Range(movie.genre_ids)

\* The filter of searchMoviesInTMDB.
SearchFilterKeeps(movie) ==
    /\ PersonFilterKeeps(movie)
    /\ 10751 \notin Range(movie.genre_ids)

RECURSIVE InsertIdx(_, _, _)
\* Insert index i into a list of indices sorted by non-increasing key, after
\* the indices whose key is equal (Array.prototype.sort is stable).
InsertIdx(i, sorted, keys) ==
    IF sorted = <<>> THEN <<i>>
    ELSE IF keys[Head(sorted)] >= keys[i]
         THEN <<Head(sorted)>> \o InsertIdx(i, Tail(sorted), keys)
         ELSE <<i>> \o sorted

RECURSIVE OrderDesc(_, _)
\* The indices 1..n in the order a stable sort by descending key puts them.
OrderDesc(keys, n) ==
    IF n = 0 THEN <<>> ELSE InsertIdx(n, OrderDesc(keys, n - 1), keys)

\* seq.sort((a, b) => key(b) - key(a)) with keys[i] the key of seq[i].
SortDescByKeys(seq, keys) ==
    LET order == OrderDesc(keys, Len(seq))
    IN [i \in 1..Len(seq) |-> seq[order[i]]]

\* movies.sort((a, b) => parseFloat(b.imdb) - parseFloat(a.imdb))
SortByRatingDesc(movies) ==
    SortDescByKeys(movies, [i \in 1..Len(movies) |-> movies[i].imdb])

(***************************************************************************)
(* movieApiService.js: the response cache.                                 *)
(* CACHE_DURATION is 5 minutes; in the catalog specification one clock     *)
(* tick is one minute.                                                     *)
(***************************************************************************)
CACHE_DURATION == 5

EmptyCache == [k \in {} |-> 0]

\* A faulty variant of getCached, with <= for <: an entry is still served at
\* the very age of its expiry.
getCachedHitInclusive(cache, key, t) ==
    /\ key \in DOMAIN cache
    /\ t - cache[key].timestamp <= CACHE_DURATION

\* getCached(key): the entry is returned while its age is below the duration.
getCachedHit(cache, key, t) ==
    /\ key \in DOMAIN cache
    /\ t - cache[key].timestamp < CACHE_DURATION

\* The cache after getCached(key): a miss deletes the key.
getCachedCache(cache, key, t) ==
    IF getCachedHit(cache, key, t)
    THEN cache
    ELSE [k \in DOMAIN cache \ {key} |-> cache[k]]

\* setCache(key, data) at time t.
setCache(cache, key, data, t) ==
    [k \in DOMAIN cache \cup {key} |->
        IF k = key THEN [data |-> data, timestamp |-> t] ELSE cache[k]]

(***************************************************************************)
(* The external catalog: what a fetch may answer.                          *)
(***************************************************************************)
RawMovie(id, title, date, gids, vote, pop, lang, director, cast) ==
    [ id |-> id, title |-> title, release_date |-> date, genre_ids |-> gids,
      vote_average |-> vote, popularity |-> pop, original_language |-> lang,
      director |-> director, cast |-> cast ]

\* Records of discover/search lists carry no credits.  vote_average is in
\* hundredths (784 is 7.84).
HotFuzz == RawMovie(1, "Hot Fuzz", 5, <<35, 28>>, 784, 4, "en", "", <<>>)
Heat == RawMovie(2, "Heat", 3, <<28, 80>>, 830, 6, "en", "", <<>>)
Dune3 == RawMovie(3, "Dune 3", 11, <<12, 878>>, 700, 9, "en", "", <<>>)
Paddington == RawMovie(4, "Paddington", 4, <<35, 10751>>, 795, 5, "en", "", <<>>)

DiscoverBodies == { <<HotFuzz, Paddington>>, <<Heat, HotFuzz, Dune3>> }

\* Records of /movie/{id}?append_to_response=credits.
DetailsOf(id) ==
    CASE id = 1 -> RawMovie(1, "Hot Fuzz", 5, <<35, 28>>, 784, 4, "en", "Edgar Wright",
                            <<"Simon Pegg", "Nick Frost">>)
      [] id = 2 -> RawMovie(2, "Heat", 3, <<28, 80>>, 830, 6, "en", "Michael Mann",
                            <<"Al Pacino">>)
      [] OTHER  -> RawMovie(id, "La La Land", 6, <<35, 10402>>, 800, 7, "en",
                            "Damien Chazelle", <<"Emma Stone">>)

\* Bodies of /person/{id}/movie_credits.
CreditsBodies ==
    { [crew |-> <<>>, cast |-> <<>>],
      [crew |-> <<[id |-> 1, job |-> "Director"], [id |-> 9, job |-> "Producer"]>>,
       cast |-> <<[id |-> 2, popularity |-> 3]>>],
      [crew |-> <<[id |-> 1, job |-> "Director"], [id |-> 7, job |-> "Director"]>>,
       cast |-> <<[id |-> 7, popularity |-> 1], [id |-> 2, popularity |-> 4]>>] }

\* Provider lists of the selected region of /movie/{id}/watch/providers.
ProviderBodies ==
    { [rent |-> <<"Apple TV">>, buy |-> <<>>, flatrate |-> <<"Apple TV Plus", "MUBI">>],
      [rent |-> <<>>, buy |-> <<>>, flatrate |-> <<"MUBI">>] }

\* How a fetch ends: a parsed body, a body without the expected field, or a
\* failure (rejected fetch, non-2xx status, unparsable JSON).
FailureKinds == {"reject", "http", "badjson"}
Failed(outcome) == outcome.status \in FailureKinds
Failures == {[status |-> k, body |-> <<>>] : k \in FailureKinds}
Ok(body) == [status |-> "ok", body |-> body]
\* A 2xx answer whose JSON object lacks the expected field (data.results,
\* searchData.results, personData.crew ...): the code reads it as empty.
Malformed == [status |-> "malformed", body |-> <<>>]
\* The JSON object {} read as a movie record: every field is missing.
EmptyObject == RawMovie(Undef, "", Undef, <<>>, Undef, Undef, "", "", <<>>)

(***************************************************************************)
(* The catalog operations.                                                 *)
(***************************************************************************)
\* toLowerCase() over the names and queries of the model.
Lower(str) ==
    CASE str = "Heat"         -> "heat"
      [] str = "Edgar Wright" -> "edgar wright"
      [] str = "Al Pacino"    -> "al pacino"
      [] OTHER                -> str

Args(genre, sortBy, minRating, page, limit, name, movieId, query) ==
    [ genre |-> genre, sortBy |-> sortBy, minYear |-> Undef, maxYear |-> Undef,
      minRating |-> minRating, page |-> page, limit |-> limit, name |-> name,
      movieId |-> movieId, query |-> query ]

NoId == <<"", 0>>
GenreArgs(genre, sortBy, minRating, page, limit) ==
    Args(genre, sortBy, minRating, page, limit, "", NoId, "")

\* The calls the clients of the model make.
GenreCalls ==
    { GenreArgs("Komedi", "null", Undef, 1, 2),
      GenreArgs("Komedi", "null", Undef, 1, 1),
      GenreArgs("Aksiyon/Macera", "null", Undef, 1, 2),
      GenreArgs("Western", "null", Undef, 1, 2) }
PersonCalls ==
    { Args("", "null", Undef, 1, 20, "Edgar Wright", NoId, ""),
      Args("", "null", Undef, 1, 20, "", NoId, "") }
DetailsCalls ==
    { Args("", "null", Undef, 1, 20, "", <<"tmdb", 2>>, ""),
      Args("", "null", Undef, 1, 20, "", <<"local", 2>>, "") }
SearchCalls ==
    { Args("", "null", Undef, 1, 1, "", NoId, "Heat"),
      Args("", "null", Undef, 1, 2, "", NoId, "heat"),
      Args("", "null", Undef, 1, 2, "", NoId, "") }

CallsOf(kind) ==
    CASE kind = "genre"     -> GenreCalls
      [] kind = "director"  -> PersonCalls
      [] kind = "actor"     -> PersonCalls
      [] kind = "details"   -> DetailsCalls
      [] kind = "providers" -> DetailsCalls
      [] kind = "search"    -> SearchCalls

Kinds == {"genre", "director", "actor", "details", "providers", "search"}

\* The early returns before the cache is consulted.
InputValid(kind, args) ==
    CASE kind = "genre"                  -> GenreMapped(args.genre)
      [] kind \in {"director", "actor"}  -> args.name # ""
      [] kind \in {"details", "providers"} ->
            args.movieId # NoId /\ args.movieId[1] # "local"
      [] kind = "search"                 -> args.query # ""

\* The cache key of each operation, field by field of its template string.
CacheKey(kind, args) ==
    CASE kind = "genre" ->
            <<"genre", <<GENRE_MAP[args.genre],
                         IF args.sortBy = "null" THEN "new_rated" ELSE args.sortBy,
                         args.minYear, args.maxYear, args.minRating, args.page>>>>
      [] kind = "director"  -> <<"director", <<Lower(args.name)>>>>
      [] kind = "actor"     -> <<"actor", <<Lower(args.name)>>>>
      [] kind = "details"   -> <<"details", <<args.movieId[2]>>>>
      [] kind = "providers" -> <<"watch_providers", <<args.movieId[2]>>>>
      [] kind = "search"    -> <<"search", <<Lower(args.query), args.page>>>>

\* ---- searchMoviesByGenre ------------------------------------------------
\* The merge of the second discover list of a merged category: new ids are
\* appended and the union is sorted (by popularity for most_liked, else by
\* vote_average).
GenreMergeSecond(args, results, results2) ==
    LET existingIds == {results[i].id : i \in DOMAIN results}
        merged == results \o SelectSeq(results2, LAMBDA m : m.id \notin existingIds)
    IN IF args.sortBy = "most_liked"
       THEN SortDescByKeys(merged, [i \in DOMAIN merged |-> merged[i].popularity])
       ELSE SortDescByKeys(merged, [i \in DOMAIN merged |-> merged[i].vote_average])

\* From the raw results to the returned list: the first `limit` records are
\* converted, filtered and sorted by rating.
GenreFinish(args, results) ==
    LET fetchLimit == Min(IF args.limit = 0 THEN 50 ELSE args.limit, Len(results))
        basicMovies == [i \in 1..fetchLimit |-> convertTMDBToMovieFormat(results[i])]
        validMovies == SelectSeq(basicMovies,
                           LAMBDA m : GenreFilterKeeps(m, GENRE_MAP[args.genre]))
    IN IF args.sortBy \in {"most_liked", "most_rated", "null", "new_most_rated"}
       THEN SortByRatingDesc(validMovies)
       ELSE validMovies

\* ---- searchMoviesInTMDB -------------------------------------------------
SearchFinish(args, results) ==
    LET converted == [i \in 1..Min(Len(results), args.limit * 2) |->
                          convertTMDBToMovieFormat(results[i])]
    IN Take(SelectSeq(converted, SearchFilterKeeps), args.limit)

\* ---- searchMoviesByDirector / searchMoviesByActor -------------------------
\* The credits whose details are fetched: a director's crew credits with the
\* job "Director", an actor's cast credits by descending popularity; at most
\* 20, then at most 10.
PersonCredits(kind, body) ==
    IF kind = "director"
    THEN Take(Take(SelectSeq(body.crew, LAMBDA c : c.job = "Director"), 20), 10)
    ELSE Take(Take(SortDescByKeys(body.cast,
                      [i \in DOMAIN body.cast |-> body.cast[i].popularity]), 20), 10)

\* ---- getWatchProviders ---------------------------------------------------
\* Provider names with an allowed literal in them, for rent/buy and for
\* subscriptions (which exclude Apple TV / iTunes).
RentBuyAllowed == {"Apple TV", "Apple TV Plus", "Netflix"}
SubscriptionAllowed == {"Netflix"}
FilterProviders(region) ==
    [ rent     |-> SelectSeq(region.rent, LAMBDA n : n \in RentBuyAllowed),
      buy      |-> SelectSeq(region.buy, LAMBDA n : n \in RentBuyAllowed),
      flatrate |-> SelectSeq(region.flatrate, LAMBDA n : n \in SubscriptionAllowed) ]
NoProviders(p) == p.rent = <<>> /\ p.buy = <<>> /\ p.flatrate = <<>>

\* ---- the running operations ----------------------------------------------
Slots == {1}
MaxOps == 2
MaxFan == 2
CatCallers == {<<s, k>> : s \in Slots, k \in 0..MaxFan}

Val(x) == [null |-> FALSE, val |-> x]
Null == [null |-> TRUE, val |-> <<>>]
ResultOf(kind, list) == IF kind \in {"details", "providers"} THEN Null ELSE Val(list)

ArgsNone == Args("", "null", Undef, 1, 20, "", NoId, "")
NoWriter == [kind |-> "idle", args |-> ArgsNone]
\* What getCached did for an operation: whether an entry was there and of which
\* age, whether it was returned, whether the key is there afterwards.
NoLookup ==
    [ done |-> FALSE, had |-> FALSE, age |-> 0, hit |-> FALSE, same |-> FALSE,
      presentAfter |-> FALSE, by |-> NoWriter ]
IdleOp ==
    [ kind |-> "idle", args |-> ArgsNone, pc |-> "idle", raw |-> <<>>, sub |-> <<>>,
      out |-> Null, lookup |-> NoLookup, failed |-> FALSE, wrote |-> FALSE ]

CatInit ==
    /\ apiCache = EmptyCache
    /\ cacheBorn = EmptyCache
    /\ ops = [s \in Slots |-> IdleOp]
    /\ catFetches = [c \in CatCallers |-> 0]
    /\ opsStarted = 0

\* The limiter as the catalog uses it: its own history is not kept.
CatRl(L) == SetRl(L) /\ UNCHANGED <<rlDoneAt, rlCalls>>

\* The operation of slot s ends with `out`.
Finished(op, out) == [op EXCEPT !.pc = "done", !.out = out]

\* setCache(cacheKey, data) by the operation of slot s, then its return.
StoreAndFinish(s, op, data) ==
    /\ apiCache' = setCache(apiCache, CacheKey(op.kind, op.args), data, now)
    /\ cacheBorn' = [k \in DOMAIN cacheBorn \cup {CacheKey(op.kind, op.args)} |->
                        IF k = CacheKey(op.kind, op.args)
                        THEN [at |-> now, data |-> data, kind |-> op.kind, args |-> op.args]
                        ELSE cacheBorn[k]]
    /\ ops' = [ops EXCEPT ![s] = [Finished(op, Val(data)) EXCEPT !.wrote = TRUE]]

\* A cached list is returned as it is; searchMoviesInTMDB cuts it to its limit.
FromCache(kind, args, data) ==
    IF kind = "search" THEN Take(data, args.limit) ELSE data

\* An operation is called: input validation, then the cache, then (on a miss)
\* the call of checkRateLimit before the first request.
CatStart(s, kind, args) ==
    /\ ops[s].kind = "idle"
    /\ opsStarted < MaxOps
    /\ opsStarted' = opsStarted + 1
    /\ UNCHANGED <<now, catFetches>>
    /\ LET op    == [IdleOp EXCEPT !.kind = kind, !.args = args]
           key   == CacheKey(kind, args)
           hit   == getCachedHit(apiCache, key, now)
           had   == key \in DOMAIN cacheBorn
           after == getCachedCache(apiCache, key, now)
           look  == [ done |-> TRUE, had |-> had,
                      age |-> IF had THEN now - cacheBorn[key].at ELSE 0,
                      hit |-> hit,
                      same |-> hit /\ had /\ apiCache[key].data = cacheBorn[key].data,
                      presentAfter |-> key \in DOMAIN after,
                      by |-> IF had THEN [kind |-> cacheBorn[key].kind,
                                          args |-> cacheBorn[key].args]
                             ELSE NoWriter ]
       IN IF ~InputValid(kind, args)
          THEN /\ ops' = [ops EXCEPT ![s] = Finished(op, ResultOf(kind, <<>>))]
               /\ UNCHANGED <<apiCache, cacheBorn, rateVars>>
          ELSE /\ apiCache' = after
               /\ UNCHANGED cacheBorn
               /\ IF hit
                  THEN /\ ops' = [ops EXCEPT ![s] =
                              [Finished(op, Val(FromCache(kind, args, apiCache[key].data)))
                                 EXCEPT !.lookup = look]]
                       /\ UNCHANGED rateVars
                  ELSE /\ ops' = [ops EXCEPT ![s] = [op EXCEPT !.pc = "rl1", !.lookup = look]]
                       /\ CatRl(checkRateLimit(RlState, <<s, 0>>, now))

\* The request after `await checkRateLimit()`.
CatFetch(s) ==
    /\ ops[s].pc \in {"rl1", "rl2"}
    /\ LimiterReturned(<<s, 0>>)
    /\ ops' = [ops EXCEPT ![s].pc = IF @ = "rl1" THEN "fetch1" ELSE "fetch2"]
    /\ catFetches' = [catFetches EXCEPT ![<<s, 0>>] = @ + 1]
    /\ UNCHANGED <<now, apiCache, cacheBorn, opsStarted, rateVars>>

\* What the first request of an operation may answer.
FirstAnswers(op) ==
    Failures \cup {Malformed} \cup
    CASE op.kind \in {"genre", "search"}   -> {Ok(b) : b \in DiscoverBodies}
      [] op.kind \in {"director", "actor"} -> {Ok(<<>>), Ok(<<[id |-> 5]>>)}
      [] op.kind = "details"               -> {Ok(DetailsOf(op.args.movieId[2]))}
      [] op.kind = "providers"             -> {Ok(b) : b \in ProviderBodies}
      [] OTHER                             -> {}

\* The answer to the first request arrives.
CatResponse1(s, answer) ==
    /\ ops[s].pc = "fetch1"
    /\ answer \in FirstAnswers(ops[s])
    /\ UNCHANGED <<now, catFetches, opsStarted>>
    /\ LET op   == [ops[s] EXCEPT !.failed = answer.status # "ok"]
           body == answer.body
       IN IF Failed(answer)
          THEN \* thrown and caught: [] or null, nothing cached
               /\ ops' = [ops EXCEPT ![s] = Finished(op, ResultOf(op.kind, <<>>))]
               /\ UNCHANGED <<apiCache, cacheBorn, rateVars>>
          ELSE CASE op.kind = "genre" ->
                      IF IsMergedCategory(op.args.genre)
                      THEN /\ ops' = [ops EXCEPT ![s] = [op EXCEPT !.pc = "rl2", !.raw = body]]
                           /\ CatRl(checkRateLimit(RlState, <<s, 0>>, now))
                           /\ UNCHANGED <<apiCache, cacheBorn>>
                      ELSE /\ StoreAndFinish(s, op, GenreFinish(op.args, body))
                           /\ UNCHANGED rateVars
                 [] op.kind = "search" ->
                      /\ StoreAndFinish(s, op, SearchFinish(op.args, body))
                      /\ UNCHANGED rateVars
                 [] op.kind \in {"director", "actor"} ->
                      IF body = <<>>
                      THEN \* no person found: [] without caching
                           /\ ops' = [ops EXCEPT ![s] = Finished(op, Val(<<>>))]
                           /\ UNCHANGED <<apiCache, cacheBorn, rateVars>>
                      ELSE /\ ops' = [ops EXCEPT ![s] = [op EXCEPT !.pc = "rl2"]]
                           /\ CatRl(checkRateLimit(RlState, <<s, 0>>, now))
                           /\ UNCHANGED <<apiCache, cacheBorn>>
                 [] op.kind = "details" ->
                      /\ StoreAndFinish(s, op, convertTMDBToMovieFormat(
                              IF answer = Malformed THEN EmptyObject ELSE body))
                      /\ UNCHANGED rateVars
                 [] op.kind = "providers" ->
                      IF answer = Malformed \/ NoProviders(FilterProviders(body))
                      THEN /\ ops' = [ops EXCEPT ![s] = Finished(op, Null)]
                           /\ UNCHANGED <<apiCache, cacheBorn, rateVars>>
                      ELSE /\ StoreAndFinish(s, op, FilterProviders(body))
                           /\ UNCHANGED rateVars

RECURSIVE CallLimiterForAll(_, _, _, _)
\* moviesToFetch.map(async credit => { await checkRateLimit(); ... }): the calls
\* of checkRateLimit are made one after the other as the map runs.
CallLimiterForAll(L, s, k, n) ==
    IF k > n THEN L
    ELSE CallLimiterForAll(checkRateLimit(L, <<s, k>>, now), s, k + 1, n)

\* What the second request of an operation may answer.
SecondAnswers(op) ==
    Failures \cup {Malformed} \cup
    IF op.kind = "genre" THEN {Ok(b) : b \in DiscoverBodies}
                         ELSE {Ok(b) : b \in CreditsBodies}

\* The answer to the second request arrives: the second genre of a merged
\* category, or the credits of the person.
CatResponse2(s, answer) ==
    /\ ops[s].pc = "fetch2"
    /\ answer \in SecondAnswers(ops[s])
    /\ UNCHANGED <<now, catFetches, opsStarted>>
    /\ LET op == [ops[s] EXCEPT !.failed = @ \/ answer.status # "ok"]
       IN IF op.kind = "genre"
          THEN \* a failure of the second query is caught inside: the first list stays
               /\ StoreAndFinish(s, op,
                     GenreFinish(op.args,
                        IF Failed(answer) THEN op.raw
                        ELSE GenreMergeSecond(op.args, op.raw, answer.body)))
               /\ UNCHANGED rateVars
          ELSE IF Failed(answer)
               THEN /\ ops' = [ops EXCEPT ![s] = Finished(op, Val(<<>>))]
                    /\ UNCHANGED <<apiCache, cacheBorn, rateVars>>
               ELSE LET credits == IF answer = Malformed THEN <<>>
                                   ELSE PersonCredits(op.kind, answer.body)
                    IN /\ ops' = [ops EXCEPT ![s] =
                              [op EXCEPT !.pc = "fan",
                                         !.sub = [k \in DOMAIN credits |->
                                                    [pc |-> "rl", id |-> credits[k].id,
                                                     movie |-> Null]]]]
                       /\ CatRl(CallLimiterForAll(RlState, s, 1, Len(credits)))
                       /\ UNCHANGED <<apiCache, cacheBorn>>

\* The details request of credit k after its `await checkRateLimit()`.
CatSubFetch(s, k) ==
    /\ ops[s].pc = "fan"
    /\ k \in DOMAIN ops[s].sub
    /\ ops[s].sub[k].pc = "rl"
    /\ LimiterReturned(<<s, k>>)
    /\ ops' = [ops EXCEPT ![s].sub[k].pc = "fetch"]
    /\ catFetches' = [catFetches EXCEPT ![<<s, k>>] = @ + 1]
    /\ UNCHANGED <<now, apiCache, cacheBorn, opsStarted, rateVars>>

\* The answer to the details request of credit k: a failure gives null.
CatSubResponse(s, k, answer) ==
    /\ ops[s].pc = "fan"
    /\ k \in DOMAIN ops[s].sub
    /\ ops[s].sub[k].pc = "fetch"
    /\ answer \in Failures \cup {Ok(DetailsOf(ops[s].sub[k].id))}
    /\ ops' = [ops EXCEPT ![s].sub[k].pc = "done",
                          ![s].sub[k].movie =
                              IF Failed(answer) THEN Null
                              ELSE Val(convertTMDBToMovieFormat(answer.body)),
                          ![s].failed = @ \/ Failed(answer)]
    /\ UNCHANGED <<now, apiCache, cacheBorn, catFetches, opsStarted, rateVars>>

\* Promise.all over the details has resolved: filter, cache, return.
CatJoin(s) ==
    /\ ops[s].pc = "fan"
    /\ \A k \in DOMAIN ops[s].sub : ops[s].sub[k].pc = "done"
    /\ LET sub == ops[s].sub
           got == SelectSeq(sub, LAMBDA t : ~t.movie.null)
           moviesWithDetails == [i \in DOMAIN got |-> got[i].movie.val]
       IN StoreAndFinish(s, ops[s], SelectSeq(moviesWithDetails, PersonFilterKeeps))
    /\ UNCHANGED <<now, catFetches, opsStarted, rateVars>>

\* The caller takes the result; the slot is free for the next call.
CatReturn(s) ==
    /\ ops[s].pc = "done"
    /\ ops' = [ops EXCEPT ![s] = IdleOp]
    /\ catFetches' = [c \in CatCallers |-> IF c[1] = s THEN 0 ELSE catFetches[c]]
    /\ rlDoneBy' = [c \in CatCallers |-> IF c[1] = s THEN 0 ELSE rlDoneBy[c]]
    /\ UNCHANGED <<now, apiCache, cacheBorn, opsStarted,
                   requestCount, windowStart, rlPc, rlWake, rlDoneAt, rlCalls>>

CatLimiterResume(c) ==
    /\ rlPc[c] = "waiting"
    /\ rlWake[c] <= now
    /\ CatRl(checkRateLimitResumed(RlState, c, now))
    /\ UNCHANGED <<now, catVars>>

CatTick ==
    /\ Tick
    /\ UNCHANGED catVars

CatNext ==
    \/ \E s \in Slots, kind \in Kinds : \E args \in CallsOf(kind) :
          CatStart(s, kind, args) /\ UNCHANGED <<recVars, relVars>>
    \/ \E s \in Slots : CatFetch(s) /\ UNCHANGED <<recVars, relVars>>
    \/ \E s \in Slots : \E answer \in FirstAnswers(ops[s]) :
          CatResponse1(s, answer) /\ UNCHANGED <<recVars, relVars>>
    \/ \E s \in Slots : \E answer \in SecondAnswers(ops[s]) :
          CatResponse2(s, answer) /\ UNCHANGED <<recVars, relVars>>
    \/ \E s \in Slots, k \in 1..MaxFan : CatSubFetch(s, k) /\ UNCHANGED <<recVars, relVars>>
    \/ \E s \in Slots, k \in 1..MaxFan :
          \E answer \in Failures \cup {Ok(DetailsOf(i)) : i \in 1..9} :
             CatSubResponse(s, k, answer) /\ UNCHANGED <<recVars, relVars>>
    \/ \E s \in Slots : CatJoin(s) /\ UNCHANGED <<recVars, relVars>>
    \/ \E s \in Slots : CatReturn(s) /\ UNCHANGED <<recVars, relVars>>
    \/ \E c \in CatCallers : CatLimiterResume(c) /\ UNCHANGED <<recVars, relVars>>
    \/ CatTick /\ UNCHANGED <<recVars, relVars>>

(***************************************************************************)
(* recommendationService.js: data.                                         *)
(* A JS value used as an id is <<tag, n>>: the number n ("num"), the       *)
(* string "n" ("str"), "local_n", "tmdb_n", undefined ("undef"), the       *)
(* string "undefined" ("undefstr") or "" ("empty").  A missing string      *)
(* field is NoStr.  Ratings are in tenths; an imdb field holds the number   *)
(* its string parses to, Undef when parseFloat gives NaN or the field is   *)
(* missing.  An average is a fraction [n, d] of tenths, null when d = 0.   *)
(***************************************************************************)
NoStr == "<undefined>"
IdNum(n) == <<"num", n>>
IdStr(n) == <<"str", n>>
IdUndef == <<"undef", 0>>
IdEmpty == <<"empty", 0>>

\* String(v)
String(v) ==
    CASE v[1] = "num"   -> <<"str", v[2]>>
      [] v[1] = "undef" -> <<"undefstr", 0>>
      [] OTHER          -> v

\* Truthiness of an id value, and of a string field.
TruthyId(v) ==
    CASE v[1] = "num"   -> v[2] # 0
      [] v[1] \in {"undef", "empty"} -> FALSE
      [] OTHER          -> TRUE
TruthyStr(str) == str # NoStr /\ str # ""

\* a || b over id values
OrId(a, b) == IF TruthyId(a) THEN a ELSE b

\* title.toLowerCase().trim() over the titles of the model
LowerTrim(title) ==
    CASE title = "Heat"        -> "heat"
      [] title = " HEAT "      -> "heat"
      [] title = "Collateral"  -> "collateral"
      [] title = "The Insider" -> "the insider"
      [] title = "Ali"         -> "ali"
      [] title = "Manhunter"   -> "manhunter"
      [] title = "Scarface"    -> "scarface"
      [] title = "Serpico"     -> "serpico"
      [] title = "Carlito"     -> "carlito"
      [] title = "Insomnia"    -> "insomnia"
      [] title = "Paddington"  -> "paddington"
      [] title = "Donnie Brasco" -> "donnie brasco"
      [] title = "Thief"       -> "thief"
      [] title = "Test Movie"  -> "test movie"
      [] title = "Unforgiven"  -> "unforgiven"
      [] title = "Miami Vice"  -> "miami vice"
      [] OTHER                 -> title

\* normalizeString(str): lower case, trimmed, every character outside
\* [A-Za-z0-9_] and white space removed (so the c-cedilla of "Suç" goes).
normalizeString(str) ==
    CASE ~TruthyStr(str)          -> ""
      [] str = "Suç"              -> "su"
      [] str = "Drama"            -> "drama"
      [] str = "drama"            -> "drama"
      [] str = "Komedi"           -> "komedi"
      [] str = "Michael Mann"     -> "michael mann"
      [] str = "Brian De Palma"   -> "brian de palma"
      [] str = "Sidney Lumet"     -> "sidney lumet"
      [] str = "Al Pacino"        -> "al pacino"
      [] str = "AL PACINO"        -> "al pacino"
      [] str = "Robert De Niro"   -> "robert de niro"
      [] str = "Tom Cruise"       -> "tom cruise"
      [] str = "Will Smith"       -> "will smith"
      [] str = "Comedy"           -> "comedy"
      [] str = "Unknown"          -> "unknown"
      [] str = "Mike Newell"      -> "mike newell"
      [] str = "Christopher Nolan" -> "christopher nolan"
      [] str = "Leonardo DiCaprio" -> "leonardo dicaprio"
      [] str = "Western"          -> "western"
      [] str = "Clint Eastwood"   -> "clint eastwood"
      [] OTHER                    -> str

\* A movie record as the recommender reads it.
Movie(id, tmdbId, title, genre, director, cast, imdb, vote, year) ==
    [ id |-> id, tmdbId |-> tmdbId, title |-> title, genre |-> genre,
      director |-> director, cast |-> cast, imdb |-> imdb, vote_average |-> vote,
      year |-> year, isLocal |-> FALSE, hasLocalData |-> FALSE, localId |-> IdUndef ]

\* A record of the local inventory.
LocalMovie(n, title, genre, director, cast, imdb, year) ==
    Movie(IdNum(n), IdUndef, title, genre, director, cast, imdb, Undef, year)

\* A record as convertTMDBToMovieFormat returns it.
ApiMovie(n, title, genre, director, cast, imdb, year) ==
    Movie(<<"tmdb", n>>, IdNum(n), title, genre, director, cast, imdb, Undef, year)

NoMovie == Movie(IdUndef, IdUndef, NoStr, NoStr, NoStr, <<>>, Undef, Undef, Undef)

\* normalizeLocalToAPI(movie) with the fields getRecommendedMovies restores.
normalizeLocalToAPI(movie) ==
    [ movie EXCEPT !.id = <<"local", movie.id[2]>>,
                   !.vote_average = IF movie.imdb = Undef THEN 0 ELSE movie.imdb,
                   !.isLocal = TRUE, !.hasLocalData = TRUE, !.localId = movie.id ]

\* Fractions of tenths.
Frac(n, d) == [n |-> n, d |-> d]
NullNum == Frac(0, 0)
TruthyNum(x) == x.d # 0 /\ x.n # 0
FracLeq(x, y) == x.n * y.d <= y.n * x.d
FracMax(x, y) == IF FracLeq(x, y) THEN y ELSE x
FracSub(x, y) == Frac(x.n * y.d - y.n * x.d, x.d * y.d)
FracAbs(x) == Frac(IF x.n < 0 THEN 0 - x.n ELSE x.n, x.d)

\* ---- extractUserPreferences ---------------------------------------------
\* An entry of the watched history: an id, or an embedded movie object.
WId(v) == [obj |-> FALSE, id |-> v, movie |-> NoMovie]
WObj(movie) == [obj |-> TRUE, id |-> movie.id, movie |-> movie]

RECURSIVE Dedupe(_)
\* [...new Set(seq)]: first occurrences, in order.
Dedupe(seq) ==
    IF seq = <<>> THEN <<>>
    ELSE LET front == Dedupe(SubSeq(seq, 1, Len(seq) - 1))
             x     == seq[Len(seq)]
         IN IF x \in Range(front) THEN front ELSE Append(front, x)

RECURSIVE Flatten(_)
Flatten(seqs) == IF seqs = <<>> THEN <<>> ELSE Head(seqs) \o Flatten(Tail(seqs))

RECURSIVE SumSeq(_)
SumSeq(seq) == IF seq = <<>> THEN 0 ELSE Head(seq) + SumSeq(Tail(seq))

RECURSIVE SumValues(_)
\* The sum of the values of a set of <<key, value>> pairs.
SumValues(S) ==
    IF S = {} THEN 0
    ELSE LET x == CHOOSE x \in S : TRUE IN x[2] + SumValues(S \ {x})

\* Array.prototype.find: the first element that satisfies the test, as a
\* sequence of at most one element.
FindById(allMovies, entry) ==
    Take(SelectSeq(allMovies,
            LAMBDA m : ~entry.obj /\ (m.id = entry.id \/ m.tmdbId = entry.id)), 1)

\* The order of the default sort of ids: by their strings.
IdRank(v) ==
    CASE v[1] \in {"num", "str"} -> v[2]
      [] v[1] = "local"    -> 100 + v[2]
      [] v[1] = "tmdb"     -> 200 + v[2]
      [] v[1] = "undefstr" -> 300
      [] v[1] = "undef"    -> 1000
      [] OTHER             -> 0 - 1
SortIds(ids) == SortDescByKeys(ids, [i \in DOMAIN ids |-> 0 - IdRank(ids[i])])

\* The memoization key: the sorted favorite ids, the sorted watched ids (an
\* embedded object without a truthy id goes in whole) and the rating keys.
PrefsCacheKey(favorites, watchedMovies, userRatings) ==
    [ favIds     |-> SortIds([i \in DOMAIN favorites |-> favorites[i].id]),
      watchedIds |->
          LET els == [i \in DOMAIN watchedMovies |->
                        IF watchedMovies[i].obj /\ ~TruthyId(watchedMovies[i].id)
                        THEN [id |-> <<"object", 0>>, obj |-> watchedMovies[i].movie]
                        ELSE [id |-> watchedMovies[i].id, obj |-> NoMovie]]
          IN SortDescByKeys(els, [i \in DOMAIN els |->
                 IF els[i].id[1] = "object" THEN 0 - 50 ELSE 0 - IdRank(els[i].id)]),
      ratingKeys |-> {r[1] : r \in userRatings} ]

\* watchedMoviesData: embedded objects with a title, ids found in allMovies.
WatchedMoviesData(watchedMovies, allMovies) ==
    Flatten([i \in DOMAIN watchedMovies |->
        IF watchedMovies[i].obj /\ TruthyStr(watchedMovies[i].movie.title)
        THEN <<watchedMovies[i].movie>>
        ELSE FindById(allMovies, watchedMovies[i])])

\* How often each name occurs: the frequency objects, as sets of pairs.
CountIn(seq, x) == Cardinality({i \in DOMAIN seq : seq[i] = x})
Frequency(names) == {<<x, CountIn(names, x)>> : x \in Range(names)}
FreqOf(freq, name) ==
    IF \E f \in freq : f[1] = name THEN (CHOOSE f \in freq : f[1] = name)[2] ELSE 0

\* parseFloat(m.imdb) of each movie, NaN and non-positive values dropped.
RatingsOf(movies) ==
    SelectSeq([i \in DOMAIN movies |-> movies[i].imdb], LAMBDA r : r # Undef /\ r > 0)

\* The profile of an empty working set: a literal without the later fields.
EmptyProfile ==
    [ genres |-> <<>>, directors |-> <<>>, actors |-> <<>>, minRating |-> Frac(0, 1),
      full |-> FALSE, userAvgRating |-> NullNum,
      genreFrequency |-> {}, directorFrequency |-> {}, actorFrequency |-> {} ]

\* The profile computed from the working set.
ComputeProfile(favorites, watchedMoviesData, userRatings) ==
    LET allUserMovies == favorites \o watchedMoviesData
        genreNames == SelectSeq([i \in DOMAIN allUserMovies |-> allUserMovies[i].genre],
                                TruthyStr)
        directorNames == SelectSeq([i \in DOMAIN allUserMovies |-> allUserMovies[i].director],
                                   TruthyStr)
        actorNames == Flatten([i \in DOMAIN allUserMovies |-> allUserMovies[i].cast])
        favR == RatingsOf(favorites)
        watR == RatingsOf(watchedMoviesData)
        nF == Len(favR)
        nW == Len(watR)
        \* favorites count 1.5 times
        avgRating == IF nF + nW > 0
                     THEN Frac(3 * SumSeq(favR) + 2 * SumSeq(watR), 2 * (nF + nW))
                     ELSE Frac(80, 1)
        normalizedAvgRating ==
            IF nF > 0 /\ nW > 0
            THEN Frac(3 * (SumSeq(favR) + SumSeq(watR)), 2 * nF + 3 * nW)
            ELSE avgRating
        userRatingValues == {r \in userRatings : r[2] >= 5 /\ r[2] <= 50}
        userSum == SumValues(userRatingValues)
        userAvgRating == IF userRatingValues # {}
                         THEN Frac(userSum, Cardinality(userRatingValues))
                         ELSE NullNum
        effectiveAvgRating == IF TruthyNum(userAvgRating) THEN userAvgRating
                              ELSE normalizedAvgRating
    IN [ genres |-> Dedupe(genreNames),
         directors |-> Dedupe(directorNames),
         actors |-> Dedupe(actorNames),
         minRating |-> FracMax(Frac(75, 1), FracSub(effectiveAvgRating, Frac(5, 1))),
         full |-> TRUE,
         userAvgRating |-> effectiveAvgRating,
         genreFrequency |-> Frequency(genreNames),
         directorFrequency |-> Frequency(directorNames),
         actorFrequency |-> Frequency(actorNames) ]

\* extractUserPreferences(favorites, watchedMovies, allMovies, userRatings) on
\* the memo `cache` with `next` the next fresh object: the object returned
\* (its reference and its content), the memo and the next fresh object after.
extractUserPreferences(cache, next, favorites, watchedMovies, allMovies, userRatings) ==
    LET cacheKey == PrefsCacheKey(favorites, watchedMovies, userRatings)
        data == WatchedMoviesData(watchedMovies, allMovies)
    IN IF \E e \in cache : e.key = cacheKey
       THEN LET e == CHOOSE e \in cache : e.key = cacheKey
            IN [ref |-> e.ref, val |-> e.val, cache |-> cache, next |-> next]
       ELSE IF Len(favorites) + Len(data) = 0
       THEN [ref |-> next, val |-> EmptyProfile, cache |-> cache, next |-> next + 1]
       ELSE LET preferences == ComputeProfile(favorites, data, userRatings)
            IN [ ref |-> next, val |-> preferences,
                 cache |-> cache \cup {[key |-> cacheKey, ref |-> next, val |-> preferences]},
                 next |-> next + 1 ]

\* ---- calculateRecommendationScore ----------------------------------------
\* precomputePreferences(preferences): the Sets keep the insertion order.
precomputePreferences(preferences) ==
    [ genres    |-> Dedupe([i \in DOMAIN preferences.genres |->
                               normalizeString(preferences.genres[i])]),
      directors |-> Dedupe([i \in DOMAIN preferences.directors |->
                               normalizeString(preferences.directors[i])]),
      actors    |-> Dedupe([i \in DOMAIN preferences.actors |->
                               normalizeString(preferences.actors[i])]),
      minRating |-> preferences.minRating,
      userAvgRating |-> IF TruthyNum(preferences.userAvgRating)
                        THEN preferences.userAvgRating ELSE NullNum,
      genreFrequency |-> preferences.genreFrequency,
      directorFrequency |-> preferences.directorFrequency,
      actorFrequency |-> preferences.actorFrequency ]

getMovieRating(movie) ==
    IF movie.imdb # Undef THEN movie.imdb
    ELSE IF movie.vote_average # Undef /\ movie.vote_average # 0 THEN movie.vote_average
    ELSE 0

\* The genre test without normalizeString on the candidate's side.
genresMatchAsSpelled(movieGenre, precomputedGenres) ==
    /\ TruthyStr(movieGenre)
    /\ movieGenre \in Range(precomputedGenres)

genresMatch(movieGenre, precomputedGenres) ==
    /\ TruthyStr(movieGenre)
    /\ precomputedGenres # <<>>
    /\ normalizeString(movieGenre) \in Range(precomputedGenres)

directorMatches(movieDirector, precomputedDirectors) ==
    /\ TruthyStr(movieDirector)
    /\ precomputedDirectors # <<>>
    /\ normalizeString(movieDirector) \in Range(precomputedDirectors)

NormalizedCast(movieCast) == {normalizeString(movieCast[i]) : i \in DOMAIN movieCast}

actorMatches(movieCast, precomputedActors) ==
    /\ movieCast # <<>>
    /\ precomputedActors # <<>>
    /\ \E i \in DOMAIN precomputedActors : precomputedActors[i] \in NormalizedCast(movieCast)

\* The cast member whose frequency weighs an actor match: the first profile
\* actor found in the cast, under its name in the cast.
MatchedActor(movieCast, precomputedActors) ==
    LET k     == CHOOSE k \in DOMAIN precomputedActors :
                    /\ precomputedActors[k] \in NormalizedCast(movieCast)
                    /\ \A j \in 1..(k - 1) : precomputedActors[j] \notin NormalizedCast(movieCast)
        named == SelectSeq(movieCast, LAMBDA a : normalizeString(a) = precomputedActors[k])
    IN named[1]

WeightAsIs(w) == w
\* (frequency || 1)
WeightOr1(w) == IF w = 0 THEN 1 ELSE w

CurrentYear == 2026

calculateRecommendationScore(movie, precomputedPrefs) ==
    LET rating        == getMovieRating(movie)
        genreMatch    == genresMatch(movie.genre, precomputedPrefs.genres)
        directorMatch == directorMatches(movie.director, precomputedPrefs.directors)
        actorMatch    == actorMatches(movie.cast, precomputedPrefs.actors)
        matchCount    == (IF genreMatch THEN 1 ELSE 0) + (IF directorMatch THEN 1 ELSE 0)
                            + (IF actorMatch THEN 1 ELSE 0)
        genreScore ==
            IF genreMatch
            THEN (IF rating >= 80 THEN 100 ELSE 50)
                   * Min(WeightOr1(FreqOf(precomputedPrefs.genreFrequency, movie.genre)), 2)
            ELSE 0
        \* 30 * Math.min(weight, 1.5)
        directorScore ==
            IF directorMatch
            THEN (IF WeightOr1(FreqOf(precomputedPrefs.directorFrequency, movie.director)) >= 2
                  THEN 45 ELSE 30)
            ELSE 0
        \* 20 * Math.min(weight, 1.5)
        actorScore ==
            IF actorMatch
            THEN (IF WeightOr1(FreqOf(precomputedPrefs.actorFrequency,
                                       MatchedActor(movie.cast, precomputedPrefs.actors))) >= 2
                  THEN 30 ELSE 20)
            ELSE 0
        multiScore == (IF matchCount >= 2 THEN 25 ELSE 0) + (IF matchCount >= 3 THEN 50 ELSE 0)
        u == precomputedPrefs.userAvgRating
        ratingDiff == FracAbs(FracSub(Frac(rating, 1), u))
        proximityScore ==
            IF TruthyNum(u)
            THEN (IF FracLeq(ratingDiff, Frac(5, 1)) THEN 15
                  ELSE IF FracLeq(ratingDiff, Frac(10, 1)) THEN 10 ELSE 0)
            ELSE 0
        yearsAgo == CurrentYear - movie.year
        recencyScore ==
            IF movie.year # Undef /\ movie.year # 0
            THEN (IF yearsAgo <= 5 THEN 5 ELSE IF yearsAgo <= 10 THEN 3 ELSE 0)
            ELSE 0
    IN [ score |-> genreScore + directorScore + actorScore + multiScore
                     + proximityScore + recencyScore,
         rating |-> rating,
         matchCount |-> matchCount,
         breakdown |-> [ genreHighScore |-> genreMatch /\ rating >= 80,
                         genreMatch |-> genreMatch /\ rating < 80,
                         directorMatch |-> directorMatch,
                         actorMatch |-> actorMatch,
                         multipleMatches |-> matchCount >= 2 ] ]

\* ---- getRecommendedMovies -------------------------------------------------
\* localMovies.map(normalizeLocalToAPI) with the local fields restored
NormalizedLocalMovies(localMovies) ==
    [i \in DOMAIN localMovies |-> normalizeLocalToAPI(localMovies[i])]

\* movie.title.toLowerCase() of a movie without a title is a TypeError.
MergeThrows(localMovies, apiMovies) ==
    \E m \in Range(localMovies) \cup Range(apiMovies) : m.title = NoStr

RECURSIVE FirstByTitle(_, _)
\* The values of the Map keyed by title: first occurrences, in order.
FirstByTitle(movies, seen) ==
    IF movies = <<>> THEN <<>>
    ELSE LET key == LowerTrim(Head(movies).title)
         IN IF key \in seen THEN FirstByTitle(Tail(movies), seen)
            ELSE <<Head(movies)>> \o FirstByTitle(Tail(movies), seen \cup {key})

\* The merge with the two forEach loops exchanged.
mergeAPIAndLocalResults(localMovies, apiMovies) == FirstByTitle(apiMovies \o localMovies, {})

mergeLocalAndAPIResults(localMovies, apiMovies) == FirstByTitle(localMovies \o apiMovies, {})

\* What one catalog search of fetchAPIRecommendations settles to: the promise
\* resolves to a list of movies or rejects.
Resolved(movies) == [ok |-> TRUE, movies |-> movies]
Rejected == [ok |-> FALSE, movies |-> <<>>]

\* The searches fetchAPIRecommendations issues, in the order of its three
\* groups, without the slices of the name lists.
ApiQueriesUnsliced(preferences) ==
    [i \in DOMAIN preferences.genres |-> <<"genre", preferences.genres[i]>>]
      \o [i \in DOMAIN preferences.directors |-> <<"director", preferences.directors[i]>>]
      \o [i \in DOMAIN preferences.actors |-> <<"actor", preferences.actors[i]>>]

\* The searches fetchAPIRecommendations issues: preferences.genres.slice(0, 3),
\* preferences.directors.slice(0, 2), preferences.actors.slice(0, 2).
ApiQueries(preferences) ==
    LET genres    == Take(preferences.genres, 3)
        directors == Take(preferences.directors, 2)
        actors    == Take(preferences.actors, 2)
    IN [i \in DOMAIN genres |-> <<"genre", genres[i]>>]
         \o [i \in DOMAIN directors |-> <<"director", directors[i]>>]
         \o [i \in DOMAIN actors |-> <<"actor", actors[i]>>]

\* .then(movies => movies.slice(0, 10)) of a genre search, slice(0, 5) of a
\* director or actor search.
QueryCap(query) == IF query[1] = "genre" THEN 10 ELSE 5

\* One entry per issued search: how it settled, the list it resolved to and
\* what its .then kept of it.
QueryResults(preferences, world) ==
    LET queries == ApiQueries(preferences)
    IN [i \in DOMAIN queries |->
          [ query |-> queries[i], ok |-> world[queries[i]].ok,
            movies |-> world[queries[i]].movies,
            taken |-> Take(world[queries[i]].movies, QueryCap(queries[i])) ]]

\* fetchAPIRecommendations(preferences): the three groups are joined by nested
\* Promise.all inside one try, so a rejected search rejects the join and the
\* catch returns the still empty apiMovies.
fetchAPIRecommendations(preferences, world) ==
    LET results == QueryResults(preferences, world)
    IN IF \E i \in DOMAIN results : ~results[i].ok
       THEN <<>>
       ELSE Flatten([i \in DOMAIN results |-> results[i].taken])

\* fav.title.toLowerCase() of a favorite without a title is a TypeError.
FavoriteThrows(favorites) == \E i \in DOMAIN favorites : favorites[i].title = NoStr

favoriteIds(favorites) == {favorites[i].id : i \in DOMAIN favorites}
favoriteTitles(favorites) == {LowerTrim(favorites[i].title) : i \in DOMAIN favorites}

watchedIds(watchedMovies) ==
    { String(IF watchedMovies[i].obj
             THEN OrId(watchedMovies[i].movie.id, watchedMovies[i].movie.tmdbId)
             ELSE watchedMovies[i].id) : i \in DOMAIN watchedMovies }

watchedTitles(watchedMovies, allMoviesForLookup) ==
    { LowerTrim(watchedMovies[i].movie.title) :
        i \in {j \in DOMAIN watchedMovies :
                 watchedMovies[j].obj /\ TruthyStr(watchedMovies[j].movie.title)} }
    \cup
    { LowerTrim(FindById(allMoviesForLookup, watchedMovies[i])[1].title) :
        i \in {j \in DOMAIN watchedMovies :
                 /\ FindById(allMoviesForLookup, watchedMovies[j]) # <<>>
                 /\ TruthyStr(FindById(allMoviesForLookup, watchedMovies[j])[1].title)} }

\* String(movie.id || movie.tmdbId || ''), String(movie.tmdbId || ''), the id
\* without its "tmdb_" prefix, (movie.title || '').toLowerCase().trim()
movieId(movie) == String(OrId(OrId(movie.id, movie.tmdbId), IdEmpty))
movieTmdbId(movie) == String(OrId(movie.tmdbId, IdEmpty))
numericId(movie) ==
    IF movieId(movie)[1] = "tmdb" THEN <<"str", movieId(movie)[2]>> ELSE movieId(movie)
movieTitle(movie) == IF TruthyStr(movie.title) THEN LowerTrim(movie.title) ELSE ""

isFavorite(movie, favorites) ==
    \/ movie.id \in favoriteIds(favorites)
    \/ movieTitle(movie) \in favoriteTitles(favorites)
    \/ movie.hasLocalData /\ movie.localId \in favoriteIds(favorites)

isWatchedNoLocalData(movie, watchedMovies, allMoviesForLookup) ==
    \/ movieId(movie) \in watchedIds(watchedMovies)
    \/ movieTmdbId(movie) \in watchedIds(watchedMovies)
    \/ numericId(movie) \in watchedIds(watchedMovies)
    \/ movieTitle(movie) \in watchedTitles(watchedMovies, allMoviesForLookup)
isWatched(movie, watchedMovies, allMoviesForLookup) ==
    \/ movieId(movie) \in watchedIds(watchedMovies)
    \/ movieTmdbId(movie) \in watchedIds(watchedMovies)
    \/ numericId(movie) \in watchedIds(watchedMovies)
    \/ movieTitle(movie) \in watchedTitles(watchedMovies, allMoviesForLookup)
    \/ movie.hasLocalData /\ String(movie.localId) \in watchedIds(watchedMovies)

\* A movie with the fields the scan adds to it.
Scored(movie, result) ==
    [ movie |-> movie, recommendationScore |-> result.score,
      recommendationRating |-> result.rating ]

ScoreBatchKeepAll(batch, args, precomputedPrefs) ==
    LET kept == SelectSeq(batch, LAMBDA movie :
                    /\ ~isFavorite(movie, args.favorites)
                    /\ ~isWatched(movie, args.watchedMovies, args.allMoviesForLookup))
    IN [i \in DOMAIN kept |-> Scored(kept[i], calculateRecommendationScore(kept[i], precomputedPrefs))]
\* The movies one batch pushes onto scoredMovies.
ScoreBatch(batch, args, precomputedPrefs) ==
    LET kept == SelectSeq(batch, LAMBDA movie :
                    /\ ~isFavorite(movie, args.favorites)
                    /\ ~isWatched(movie, args.watchedMovies, args.allMoviesForLookup)
                    /\ calculateRecommendationScore(movie, precomputedPrefs).score > 0)
    IN [i \in DOMAIN kept |-> Scored(kept[i], calculateRecommendationScore(kept[i], precomputedPrefs))]

SortScoredByRating(scoredMovies) ==
    SortDescByKeys(scoredMovies,
        [i \in DOMAIN scoredMovies |-> scoredMovies[i].recommendationRating])
\* scoredMovies.sort(...): score descending, then rating descending, stable.
SortScored(scoredMovies) ==
    SortDescByKeys(scoredMovies,
        [i \in DOMAIN scoredMovies |->
            1000 * scoredMovies[i].recommendationScore + scoredMovies[i].recommendationRating])

maxPerDirector == 3
maxPerActor == 2

RECURSIVE DiverseFrom(_, _, _, _)
\* scoredMovies.filter(...) from index i on; directorSeen and actorSeen hold a
\* name once for every count the Maps give it.
DiverseFrom(scoredMovies, i, directorSeen, actorSeen) ==
    IF i > Len(scoredMovies) THEN <<>>
    ELSE LET movie   == scoredMovies[i].movie
             hasDir  == TruthyStr(movie.director)
             dirFull == hasDir /\ CountIn(directorSeen, movie.director) >= maxPerDirector
             dirNext == IF hasDir /\ ~dirFull THEN Append(directorSeen, movie.director)
                        ELSE directorSeen
             hasReachedLimit ==
                 \E a \in Range(movie.cast) : CountIn(actorSeen, a) >= maxPerActor
         IN IF dirFull
            THEN DiverseFrom(scoredMovies, i + 1, directorSeen, actorSeen)
            ELSE IF movie.cast # <<>> /\ hasReachedLimit
            THEN DiverseFrom(scoredMovies, i + 1, dirNext, actorSeen)
            ELSE <<scoredMovies[i]>>
                    \o DiverseFrom(scoredMovies, i + 1, dirNext, actorSeen \o movie.cast)

batchSize == 50

RECURSIVE ScanFrom(_, _, _, _, _)
\* The batch loop from offset i (0-based) with scoredMovies collected so far:
\* the list returned, the path that returned it and the number of movies the
\* loop has visited.
ScanFrom(i, scoredMovies, allMovies, args, precomputedPrefs) ==
    IF i >= Len(allMovies)
    THEN [ out  |-> Take(DiverseFrom(SortScored(scoredMovies), 1, <<>>, <<>>), args.limit),
           path |-> "full", scanned |-> Len(allMovies) ]
    ELSE LET batch  == SubSeq(allMovies, i + 1, Min(i + batchSize, Len(allMovies)))
             scored == scoredMovies \o ScoreBatch(batch, args, precomputedPrefs)
         IN IF Len(scored) >= args.limit * 2
            THEN [ out |-> Take(SortScored(scored), args.limit), path |-> "early",
                   scanned |-> Min(i + batchSize, Len(allMovies)) ]
            ELSE ScanFrom(i + batchSize, scored, allMovies, args, precomputedPrefs)

\* The assembly without the early termination: every movie is scored, and the
\* sorted list goes through the diversity filter.
AssembleWholeList(args, preferences, allMovies) ==
    IF FavoriteThrows(args.favorites)
    THEN [status |-> "threw", out |-> <<>>, path |-> "none", scanned |-> 0]
    ELSE [ status |-> "returned",
           out |-> Take(DiverseFrom(SortScored(ScoreBatch(allMovies, args,
                            precomputePreferences(preferences))), 1, <<>>, <<>>), args.limit),
           path |-> "full", scanned |-> Len(allMovies) ]

\* getRecommendedMovies from the exclusion sets on, over the merged list.
Assemble(args, preferences, allMovies) ==
    IF FavoriteThrows(args.favorites)
    THEN [status |-> "threw", out |-> <<>>, path |-> "none", scanned |-> 0]
    ELSE LET r == ScanFrom(0, <<>>, allMovies, args, precomputePreferences(preferences))
         IN [status |-> "returned", out |-> r.out, path |-> r.path, scanned |-> r.scanned]

\* The two early returns.
NothingToLearn(args) == Len(args.favorites) = 0 /\ Len(args.watchedMovies) = 0
NoPreferences(preferences) ==
    preferences.genres = <<>> /\ preferences.directors = <<>> /\ preferences.actors = <<>>

\* allMovies after the useAPI block: a throw in it leaves the local list.
AllMovies(args, preferences, world) ==
    LET locals == NormalizedLocalMovies(args.localMovies)
        apis   == fetchAPIRecommendations(preferences, world)
    IN IF args.useAPI /\ ~MergeThrows(locals, apis)
       THEN mergeLocalAndAPIResults(locals, apis)
       ELSE locals

(***************************************************************************)
(* The inputs of the recommender.                                          *)
(***************************************************************************)
LocHeat == LocalMovie(1, "Heat", "Suç", "Michael Mann", <<"Al Pacino", "Robert De Niro">>, 85, 1995)
LocCollateral == LocalMovie(2, "Collateral", "Suç", "Michael Mann", <<"Tom Cruise">>, 75, 2004)
LocInsider == LocalMovie(3, "The Insider", "Suç", "Michael Mann", <<"Al Pacino">>, 80, 1999)
LocAli == LocalMovie(4, "Ali", "Drama", "Michael Mann", <<"Will Smith">>, 70, 2001)
LocManhunter == LocalMovie(5, "Manhunter", "Suç", "Michael Mann", <<>>, 70, 1986)
LocScarface == LocalMovie(6, "Scarface", "Suç", "Brian De Palma", <<"Al Pacino">>, 85, 1983)
LocSerpico == LocalMovie(7, "Serpico", "Suç", "Sidney Lumet", <<"Al Pacino">>, 78, 1973)
LocCarlito == LocalMovie(8, "Carlito", "Suç", "Brian De Palma", <<"Al Pacino">>, 79, 1993)
LocInsomnia == LocalMovie(9, "Insomnia", "Suç", NoStr, <<"AL PACINO">>, 72, 2002)
LocHeatAgain == LocalMovie(11, " HEAT ", "Suç", "Michael Mann", <<"Al Pacino">>, 85, 1995)
LocUntitled == LocalMovie(12, NoStr, "Suç", "Sidney Lumet", <<>>, 80, 1990)
LocPaddington == LocalMovie(13, "Paddington", "Komedi", NoStr, <<>>, 79, 2024)
LocWestern ==
    LocalMovie(14, "Unforgiven", "Western", "Clint Eastwood", <<"Clint Eastwood">>, 82, 1992)
FavNoTitle == LocalMovie(6, NoStr, "Suç", "Brian De Palma", <<"Al Pacino">>, 85, 1983)

ApiHeat == ApiMovie(949, "Heat", "Suç", NoStr, <<>>, 83, 1995)
ApiDonnie == ApiMovie(9366, "Donnie Brasco", "Suç", "Mike Newell", <<"Al Pacino">>, 77, 1997)
ApiThief == ApiMovie(11524, "Thief", "Suç", "Michael Mann", <<>>, 74, 1981)
ApiLate == ApiMovie(82, "Miami Vice", "Suç", "Michael Mann", <<>>, 60, 2006)
ApiUntitled == ApiMovie(77, NoStr, "Suç", NoStr, <<>>, 60, 2020)
\* an embedded watched record that carries a tmdbId only
SeenByTmdbId == Movie(IdUndef, IdNum(949), NoStr, NoStr, NoStr, <<>>, Undef, Undef, Undef)

Inventory1 ==
    << LocHeat, LocCollateral, LocInsider, LocAli, LocManhunter, LocScarface,
       LocSerpico, LocCarlito, LocInsomnia >>
Inventory2 == <<LocHeatAgain, LocUntitled, LocCollateral, LocSerpico, LocPaddington>>

Inventory3 == <<LocHeat, LocHeatAgain, LocAli>>

Inventories == {Inventory1, Inventory2, Inventory3}
FavoriteLists ==
    { <<>>, <<LocScarface>>, <<LocHeat, LocScarface>>, <<FavNoTitle>>, <<ApiHeat>>,
      <<LocHeat, LocSerpico, LocAli, LocPaddington, LocWestern>> }
WatchedLists ==
    { <<>>, <<WId(IdNum(2))>>, <<WId(IdStr(7))>>, <<WObj(LocCollateral)>>,
      <<WId(<<"tmdb", 949>>)>>, <<WObj(SeenByTmdbId)>>, <<WId(IdNum(1)), WId(IdNum(9))>> }
LookupLists == {<<>>, Inventory1}
Limits == {0, 1, 3, 4, 5}
RatingMaps == { {}, {<<1, 45>>}, {<<1, 20>>} }

\* What the catalog searches of fetchAPIRecommendations resolve to.
Names ==
    { "Suç", "Drama", "Komedi", "Michael Mann", "Brian De Palma", "Sidney Lumet",
      "Mike Newell", "Al Pacino", "AL PACINO", "Robert De Niro", "Tom Cruise", "Will Smith",
      "Western", "Clint Eastwood" }
Queries == {"genre", "director", "actor"} \X Names
WorldDown == [q \in Queries |-> Resolved(<<>>)]
WorldUp ==
    [q \in Queries |->
        CASE q = <<"genre", "Suç">>             -> Resolved(<<ApiHeat, ApiDonnie>>)
          [] q = <<"director", "Michael Mann">> -> Resolved(<<ApiHeat, ApiThief>>)
          [] q = <<"actor", "Al Pacino">>       -> Resolved(<<ApiDonnie>>)
          [] OTHER                              -> Resolved(<<>>)]
WorldOdd ==
    [q \in Queries |->
        IF q = <<"genre", "Suç">> THEN Resolved(<<ApiUntitled, ApiThief>>) ELSE Resolved(<<>>)]
\* More results than a search keeps: ApiLate is the 11th of the genre search
\* and the 6th of the director and actor searches.
WorldBig ==
    [q \in Queries |->
        CASE q = <<"genre", "Suç">> ->
               Resolved(<<ApiHeat, ApiDonnie, ApiThief, ApiHeat, ApiDonnie, ApiThief,
                          ApiHeat, ApiDonnie, ApiThief, ApiHeat, ApiLate>>)
          [] q \in {<<"director", "Michael Mann">>, <<"actor", "Al Pacino">>} ->
               Resolved(<<ApiHeat, ApiDonnie, ApiThief, ApiHeat, ApiDonnie, ApiLate>>)
          [] OTHER -> Resolved(<<>>)]
\* The genre search rejects while the director search resolves.
WorldBroken ==
    [q \in Queries |->
        CASE q = <<"genre", "Suç">>             -> Rejected
          [] q = <<"director", "Michael Mann">> -> Resolved(<<ApiThief>>)
          [] OTHER                              -> Resolved(<<>>)]
Worlds == {WorldDown, WorldUp, WorldOdd, WorldBig, WorldBroken}

RecArgs ==
    [ localMovies : Inventories, favorites : FavoriteLists, useAPI : BOOLEAN,
      limit : Limits, watchedMovies : WatchedLists, allMoviesForLookup : LookupLists,
      userRatings : RatingMaps ]

(***************************************************************************)
(* The recommender as a state machine.                                     *)
(***************************************************************************)
MaxPrefCalls == 2
MaxRecCalls == 1

NoArgs ==
    [ localMovies |-> <<>>, favorites |-> <<>>, useAPI |-> FALSE, limit |-> 0,
      watchedMovies |-> <<>>, allMoviesForLookup |-> <<>>, userRatings |-> {} ]
NoScoring ==
    [ score |-> 0, rating |-> 0, matchCount |-> 0,
      breakdown |-> [ genreHighScore |-> FALSE, genreMatch |-> FALSE, directorMatch |-> FALSE,
                      actorMatch |-> FALSE, multipleMatches |-> FALSE ] ]
IdleScoring ==
    [ done |-> FALSE, movie |-> NoMovie, prefs |-> precomputePreferences(EmptyProfile),
      result |-> NoScoring ]
IdleRec ==
    [ pc |-> "idle", args |-> NoArgs, preferences |-> EmptyProfile, status |-> "none",
      out |-> <<>>, path |-> "none", scanned |-> 0, issued |-> <<>>, results |-> <<>>,
      allMovies |-> <<>> ]

RecInit ==
    /\ preferencesCache = {}
    /\ nextRef = 1
    /\ prefCalls = <<>>
    /\ scoring = IdleScoring
    /\ rec = IdleRec
    /\ recCalls = 0

\* One call of extractUserPreferences.
ExtractCall(favorites, watchedMovies, allMovies, userRatings) ==
    LET e == extractUserPreferences(preferencesCache, nextRef, favorites, watchedMovies,
                                    allMovies, userRatings)
    IN /\ Len(prefCalls) < MaxPrefCalls
       /\ preferencesCache' = e.cache
       /\ nextRef' = e.next
       /\ prefCalls' = Append(prefCalls,
             [ favorites |-> favorites, watchedMovies |-> watchedMovies,
               allMovies |-> allMovies, userRatings |-> userRatings,
               ref |-> e.ref, val |-> e.val ])
       /\ UNCHANGED <<scoring, rec, recCalls>>

\* One call of calculateRecommendationScore.
ScoreCall(movie, precomputedPrefs) ==
    /\ scoring' = [ done |-> TRUE, movie |-> movie, prefs |-> precomputedPrefs,
                    result |-> calculateRecommendationScore(movie, precomputedPrefs) ]
    /\ UNCHANGED <<preferencesCache, nextRef, prefCalls, rec, recCalls>>

Returned(call, r) ==
    [call EXCEPT !.pc = "done", !.status = r.status, !.out = r.out, !.path = r.path,
                 !.scanned = r.scanned]
ReturnedEmpty == [status |-> "returned", out |-> <<>>, path |-> "none", scanned |-> 0]

\* getRecommendedMovies(...) up to its await, or to its end without one.
RecCall(args) ==
    /\ rec.pc # "fetching"
    /\ recCalls < MaxRecCalls
    /\ recCalls' = recCalls + 1
    /\ IF NothingToLearn(args)
       THEN /\ rec' = Returned([IdleRec EXCEPT !.args = args], ReturnedEmpty)
            /\ UNCHANGED <<preferencesCache, nextRef>>
       ELSE LET e == extractUserPreferences(preferencesCache, nextRef, args.favorites,
                         args.watchedMovies, args.allMoviesForLookup, args.userRatings)
            IN /\ preferencesCache' = e.cache
               /\ nextRef' = e.next
               /\ rec' = LET call == [IdleRec EXCEPT !.args = args, !.preferences = e.val]
                             all  == AllMovies(args, e.val, WorldDown)
                         IN IF NoPreferences(e.val)
                            THEN Returned(call, ReturnedEmpty)
                            ELSE IF args.useAPI
                            THEN [call EXCEPT !.pc = "fetching",
                                              !.issued = ApiQueries(e.val)]
                            ELSE Returned([call EXCEPT !.allMovies = all],
                                          Assemble(args, e.val, all))
    /\ UNCHANGED <<prefCalls, scoring>>

\* The catalog searches have resolved: the rest of getRecommendedMovies.
RecApiDone(world) ==
    /\ rec.pc = "fetching"
    /\ rec' = LET all == AllMovies(rec.args, rec.preferences, world)
               IN Returned([rec EXCEPT !.results = QueryResults(rec.preferences, world),
                                       !.allMovies = all],
                           Assemble(rec.args, rec.preferences, all))
    /\ UNCHANGED <<preferencesCache, nextRef, prefCalls, scoring, recCalls>>

\* The profiles and the candidates calculateRecommendationScore is called on.
mockPreferences ==
    [ genres |-> <<"drama">>, directors |-> <<"christopher nolan">>,
      actors |-> <<"leonardo dicaprio">>, minRating |-> Frac(75, 1),
      userAvgRating |-> Frac(80, 1),
      genreFrequency |-> {<<"Drama", 3>>}, directorFrequency |-> {<<"Christopher Nolan", 2>>},
      actorFrequency |-> {<<"Leonardo DiCaprio", 1>>} ]
TestMovie ==
    Movie(IdUndef, IdUndef, "Test Movie", "Comedy", "Unknown", <<>>, 70, Undef, Undef)
TestDrama ==
    Movie(IdUndef, IdUndef, "Test Movie", "Drama", "Unknown", <<>>, 85, Undef, Undef)
TestAllMatch ==
    Movie(IdUndef, IdUndef, "Test Movie", "Drama", "Christopher Nolan",
          <<"Leonardo DiCaprio">>, 85, Undef, Undef)
TestLowerCase ==
    Movie(IdUndef, IdUndef, "Test Movie", "drama", "Unknown", <<>>, 75, Undef, 2018)
Profiles ==
    { precomputePreferences(
          ComputeProfile(f, WatchedMoviesData(w, l), r)) :
        f \in FavoriteLists, w \in WatchedLists, l \in LookupLists, r \in RatingMaps }
      \cup {precomputePreferences(EmptyProfile), mockPreferences}
Candidates ==
    {normalizeLocalToAPI(m) : m \in Range(Inventory1) \cup Range(Inventory2)}
      \cup {ApiHeat, ApiDonnie, ApiThief, ApiUntitled, TestMovie, TestDrama, TestAllMatch,
            TestLowerCase}

\* ---- isMovieReleased as a call of its own ----------------------------------
\* The movies, instants (hours UTC) and time zones (hours ahead of UTC) of the
\* calls: the days around day 10, from its first to its last hour.
ReleaseDates == {9, 10, 11, 12}
ReleaseYears == {0, 1, 2}
ReleaseMovies == [release_date : ReleaseDates \cup {Undef}, year : ReleaseYears \cup {Undef}]
ReleaseInstants == {10 * 24, 10 * 24 + 2, 10 * 24 + 12, 10 * 24 + 23}
TimeZones == {0 - 5, 0, 3}
\* ---- from a response to the result of a catalog search --------------------
\* The movies a response may hold: every exclusion of the filters has one.
NoGenres == RawMovie(5, "Primer", 3, <<>>, 690, 3, "en", "", <<>>)
NudeBeach == RawMovie(6, "Nude Beach", 3, <<35>>, 600, 8, "en", "", <<>>)
Winter == RawMovie(7, "Winter Sleep", 3, <<18>>, 810, 3, "tr", "", <<>>)
Roma == RawMovie(8, "Roma", 3, <<18>>, 770, 5, "es", "", <<>>)
LaLaLand == RawMovie(9, "La La Land", 3, <<35, 10402>>, 800, 7, "en", "", <<>>)
ToyStory == RawMovie(10, "Toy Story", 2, <<16, 10751, 35>>, 830, 9, "en", "", <<>>)
Fireflies == RawMovie(11, "Grave of the Fireflies", 2, <<16, 18>>, 850, 2, "en", "", <<>>)
Shaun == RawMovie(12, "Shaun of the Dead", 4, <<27, 35>>, 770, 7, "en", "", <<>>)
Flee == RawMovie(13, "Flee", 4, <<99, 16>>, 790, 1, "en", "", <<>>)
ResponseMovies ==
    { HotFuzz, Heat, Dune3, Paddington, NoGenres, NudeBeach, Winter, Roma, LaLaLand,
      ToyStory, Fireflies, Shaun, Flee }
\* The lists of at most two movies, and of at most one.
ShortBodies == {<<>>} \cup {<<m>> : m \in ResponseMovies}
ResponseBodies == ShortBodies \cup {<<a, b>> : a, b \in ResponseMovies}
FilterGenres == {"Komedi", "Animasyon", "Korku", "Drama", "Belgesel", "Suç"}
SortModes == {"null", "most_liked", "most_rated"}
NoFiltering ==
    [ done |-> FALSE, kind |-> "none", args |-> ArgsNone, body |-> <<>>, body2 |-> <<>>,
      out |-> <<>> ]

\* searchMoviesByGenre from its responses to its result.  One search is
\* followed from the initial state; a search does not depend on an earlier one.
GenreFilterCall(args, body, body2) ==
    /\ ~filtered.done
    /\ IsMergedCategory(args.genre) \/ body2 = <<>>
    /\ filtered' =
          [ done |-> TRUE, kind |-> "genre", args |-> args, body |-> body, body2 |-> body2,
            out |-> GenreFinish(args,
                       IF IsMergedCategory(args.genre)
                       THEN GenreMergeSecond(args, body, body2) ELSE body) ]

\* searchMoviesByDirector / searchMoviesByActor from the details they fetched
\* to their result.
PersonFilterCall(kind, details) ==
    /\ ~filtered.done
    /\ filtered' =
          [ done |-> TRUE, kind |-> kind, args |-> ArgsNone, body |-> details, body2 |-> <<>>,
            out |-> SelectSeq([i \in DOMAIN details |-> convertTMDBToMovieFormat(details[i])],
                              PersonFilterKeeps) ]

\* searchMoviesInTMDB from its response to its result.
SearchFilterCall(args, body) ==
    /\ ~filtered.done
    /\ InputValid("search", args)
    /\ filtered' =
        [ done |-> TRUE, kind |-> "search", args |-> args, body |-> body, body2 |-> <<>>,
          out |-> SearchFinish(args, body) ]

NoClassification ==
    [ done |-> FALSE, movie |-> [release_date |-> Undef, year |-> Undef], instant |-> 0,
      tz |-> 0, released |-> TRUE ]
RelInit == classified = NoClassification /\ filtered = NoFiltering

\* One call of isMovieReleased.
ReleasedCall(movie, instant, tz) ==
    classified' = [ done |-> TRUE, movie |-> movie, instant |-> instant, tz |-> tz,
                    released |-> isMovieReleasedAt(movie, instant, tz) ]

RateInit == now = 0 /\ RateInitOver(Callers) /\ CatInit /\ RecInit /\ RelInit
SpecRate == RateInit /\ [][RateNext]_vars

CatalogInit == now = 0 /\ RateInitOver(CatCallers) /\ CatInit /\ RecInit /\ RelInit
SpecCatalog == CatalogInit /\ [][CatNext]_vars

PrefsNext ==
    \E f \in FavoriteLists, w \in WatchedLists, l \in LookupLists, r \in RatingMaps :
        ExtractCall(f, w, l, r) /\ UNCHANGED <<now, rateVars, catVars, relVars>>
SpecPrefs == RateInit /\ [][PrefsNext]_vars

ScoreNext ==
    \E movie \in Candidates, p \in Profiles :
        ScoreCall(movie, p) /\ UNCHANGED <<now, rateVars, catVars, relVars>>
SpecScore == RateInit /\ [][ScoreNext]_vars

RecNext ==
    \/ \E args \in RecArgs : RecCall(args) /\ UNCHANGED <<now, rateVars, catVars, relVars>>
    \/ \E world \in Worlds : RecApiDone(world) /\ UNCHANGED <<now, rateVars, catVars, relVars>>
SpecRec == RateInit /\ [][RecNext]_vars

ReleaseNext ==
    \E movie \in ReleaseMovies, instant \in ReleaseInstants, tz \in TimeZones :
        ReleasedCall(movie, instant, tz)
           /\ UNCHANGED <<now, rateVars, catVars, recVars, filtered>>
SpecRelease == RateInit /\ [][ReleaseNext]_vars

FilterNext ==
    \/ /\ ~filtered.done
       /\ \E genre \in FilterGenres, sortBy \in SortModes, body \in ResponseBodies,
              body2 \in ShortBodies :
             GenreFilterCall(GenreArgs(genre, sortBy, Undef, 1, 20), body, body2)
       /\ UNCHANGED <<now, rateVars, catVars, recVars, classified>>
    \/ /\ ~filtered.done
       /\ \E kind \in {"director", "actor"}, details \in ResponseBodies :
             PersonFilterCall(kind, details)
       /\ UNCHANGED <<now, rateVars, catVars, recVars, classified>>
    \/ /\ ~filtered.done
       /\ \E args \in SearchCalls, body \in ResponseBodies : SearchFilterCall(args, body)
       /\ UNCHANGED <<now, rateVars, catVars, recVars, classified>>
SpecFilter == RateInit /\ [][FilterNext]_vars

\* C5: the request counter never exceeds the quota, and no window of
\* RATE_LIMIT_WINDOW ticks holds more than RATE_LIMIT_REQUESTS completed calls.
CompletedIn(t0) == SumTo(rlDoneAt, t0, Min(MaxTime, t0 + RATE_LIMIT_WINDOW - 1))
C5_QuotaRespected ==
    /\ requestCount <= RATE_LIMIT_REQUESTS
    /\ \A t0 \in Times : CompletedIn(t0) <= RATE_LIMIT_REQUESTS

(***************************************************************************)
(* Claims about the response cache and the catalog operations.             *)
(***************************************************************************)
Looked(s) == ops[s].lookup.done

\* C6: a cache lookup returns the stored value exactly when the key was last
\* inserted less than CACHE_DURATION before the lookup; a lookup of an older
\* entry removes it and reports absent; the age counts from the last insertion
\* only, whatever lookups came in between.
C6_CacheExpiry ==
    /\ \A s \in Slots :
          LET l == ops[s].lookup
          IN Looked(s) =>
               /\ l.hit <=> (l.had /\ l.age < CACHE_DURATION)
               /\ l.hit => l.same
               /\ (l.had /\ l.age >= CACHE_DURATION) => ~l.presentAfter
    /\ \A k \in DOMAIN apiCache :
          /\ k \in DOMAIN cacheBorn
          /\ apiCache[k].timestamp = cacheBorn[k].at
          /\ apiCache[k].data = cacheBorn[k].data

\* C6 witness: an operation found its key at the very age of expiry, was
\* refused it, fetched and inserted it again.
C6_Witness ==
    \E s \in Slots :
        /\ Looked(s) /\ ops[s].lookup.had /\ ~ops[s].lookup.hit
        /\ ops[s].lookup.age = CACHE_DURATION
        /\ ops[s].pc = "done" /\ ops[s].wrote

\* The parameters of two calls of one operation that decide the result.
SameQuery(kind, args, by) ==
    /\ by.kind = kind
    /\ CASE kind = "genre" ->
              /\ GENRE_MAP[args.genre] = GENRE_MAP[by.args.genre]
              /\ args.sortBy = by.args.sortBy
              /\ args.minYear = by.args.minYear /\ args.maxYear = by.args.maxYear
              /\ args.minRating = by.args.minRating
              /\ args.page = by.args.page
              /\ args.limit = by.args.limit
         [] kind = "search" ->
              /\ Lower(args.query) = Lower(by.args.query)
              /\ args.page = by.args.page
              /\ args.limit = by.args.limit
         [] kind \in {"director", "actor"} -> Lower(args.name) = Lower(by.args.name)
         [] OTHER -> args.movieId[2] = by.args.movieId[2]

\* C7: a call never receives the value cached by a call of the same operation
\* whose parameters (the result limit among them) differ.
C7_NoCollision ==
    \A s \in Slots :
        (Looked(s) /\ ops[s].lookup.hit) =>
            SameQuery(ops[s].kind, ops[s].args, ops[s].lookup.by)

\* C8: at every point, every caller has started at most as many requests as
\* it has completed checkRateLimit calls, and an operation that was served
\* from the cache has called neither checkRateLimit nor fetch.
C8_CacheRateFetchOrder ==
    /\ \A c \in CatCallers : catFetches[c] <= rlDoneBy[c]
    /\ \A c \in CatCallers :
          (Looked(c[1]) /\ ops[c[1]].lookup.hit) =>
              catFetches[c] = 0 /\ rlDoneBy[c] = 0 /\ rlPc[c] = "idle"

\* C8 witness: one details request of a fan-out is on its way while the
\* sibling is still suspended in checkRateLimit.
C8_Witness ==
    \E s \in Slots :
        /\ ops[s].pc = "fan"
        /\ \E k, j \in 1..MaxFan :
              catFetches[<<s, k>>] = 1 /\ rlPc[<<s, j>>] = "waiting"

\* C9: an operation one of whose requests failed (rejected, non-2xx, or a
\* body that is not what was asked for) ends with [] or null and has not
\* written the cache.
C9_FailureIsolation ==
    \A s \in Slots :
        (ops[s].pc = "done" /\ ops[s].failed) =>
            /\ ops[s].out = ResultOf(ops[s].kind, <<>>)
            /\ ~ops[s].wrote

\* C1: the list a call of getRecommendedMovies returns holds no director in
\* more than 3 entries and no cast member in more than 2, on every path.
DirectorEntries(out, d) == Cardinality({i \in DOMAIN out : out[i].movie.director = d})
ActorEntries(out, a) == Cardinality({i \in DOMAIN out : a \in Range(out[i].movie.cast)})
C1_Diversity ==
    (rec.pc = "done" /\ rec.status = "returned") =>
        \A i \in DOMAIN rec.out :
            /\ TruthyStr(rec.out[i].movie.director) =>
                  DirectorEntries(rec.out, rec.out[i].movie.director) <= 3
            /\ \A a \in Range(rec.out[i].movie.cast) : ActorEntries(rec.out, a) <= 2

\* C2: no returned movie carries the id of a favorite or of a watched entry,
\* or the lower-case trimmed title of a favorite or of a watched entry (an
\* embedded record, or an id found in the lookup list), whether the movie is
\* local or external and whichever path returned the list.
OwnIds(movie) ==
    {movie.id} \cup (IF movie.hasLocalData THEN {movie.localId} ELSE {})
        \cup (IF TruthyId(movie.tmdbId) THEN {movie.tmdbId} ELSE {})
EntryId(w) == IF w.obj THEN OrId(w.movie.id, w.movie.tmdbId) ELSE w.id
EntryTitles(w, lookup) ==
    IF w.obj THEN {w.movie.title}
    ELSE {m.title : m \in {x \in Range(lookup) : x.id = w.id \/ x.tmdbId = w.id}}
SameTitle(a, b) == TruthyStr(a) /\ TruthyStr(b) /\ LowerTrim(a) = LowerTrim(b)
C2_Exclusion ==
    (rec.pc = "done" /\ rec.status = "returned") =>
        \A i \in DOMAIN rec.out :
            LET movie == rec.out[i].movie
            IN /\ \A f \in Range(rec.args.favorites) :
                    /\ f.id \notin {movie.id} \cup
                          (IF movie.hasLocalData THEN {movie.localId} ELSE {})
                    /\ ~SameTitle(f.title, movie.title)
               /\ \A w \in Range(rec.args.watchedMovies) :
                    /\ String(EntryId(w)) \notin {String(x) : x \in OwnIds(movie)}
                    /\ \A t \in EntryTitles(w, rec.args.allMoviesForLookup) :
                          ~SameTitle(t, movie.title)

\* C2 witness: an early-terminated call returned movies from an inventory that
\* holds a favorite and a watched movie whose title it could not look up.
C2_Witness ==
    /\ rec.pc = "done" /\ rec.status = "returned" /\ rec.path = "early"
    /\ rec.out # <<>>
    /\ rec.args.allMoviesForLookup = <<>>
    /\ \E m \in Range(rec.args.localMovies) : m.id \in favoriteIds(rec.args.favorites)
    /\ \E m \in Range(rec.args.localMovies), w \in Range(rec.args.watchedMovies) :
          ~w.obj /\ String(m.id) = String(w.id)

\* C3: a candidate none of whose genre, director and cast members is in the
\* profile scores exactly 0, whatever its rating, its year and the profile's
\* average rating.
NoOverlap(movie, prefs) ==
    /\ ~(TruthyStr(movie.genre) /\ normalizeString(movie.genre) \in Range(prefs.genres))
    /\ ~(TruthyStr(movie.director) /\ normalizeString(movie.director) \in Range(prefs.directors))
    /\ \A a \in Range(movie.cast) : normalizeString(a) \notin Range(prefs.actors)
C3_ZeroMatchZeroScore ==
    (scoring.done /\ NoOverlap(scoring.movie, scoring.prefs)) => scoring.result.score = 0

\* C4: getRecommendedMovies never throws or rejects: every call resolves to a
\* list, whatever the favorites and the candidates lack.
C4_NeverThrows == rec.pc = "done" => rec.status = "returned"

\* C10: two consecutive calls of extractUserPreferences with identical
\* arguments return the very same object.
SameArguments(a, b) ==
    /\ a.favorites = b.favorites
    /\ a.watchedMovies = b.watchedMovies
    /\ a.allMovies = b.allMovies
    /\ a.userRatings = b.userRatings
C10_MemoIdentity ==
    (Len(prefCalls) = 2 /\ SameArguments(prefCalls[1], prefCalls[2])) =>
        prefCalls[1].ref = prefCalls[2].ref

\* C11: the profile every call of extractUserPreferences returns is the one
\* an extractor without memo computes from that call's own arguments.
Unmemoized(call) ==
    extractUserPreferences({}, 0, call.favorites, call.watchedMovies, call.allMovies,
                           call.userRatings).val
C11_NoStaleProfile ==
    \A i \in DOMAIN prefCalls : prefCalls[i].val = Unmemoized(prefCalls[i])

\* C20: the profile's userAvgRating is the mean of the valid explicit ratings
\* (0.5 to 5) when there is one, and null otherwise.
ValidRatings(userRatings) == {r \in userRatings : r[2] >= 5 /\ r[2] <= 50}
C20_UserAvgIsExplicitMean ==
    Len(prefCalls) >= 1 =>
        LET call  == prefCalls[1]
            valid == ValidRatings(call.userRatings)
        IN IF valid = {}
           THEN ~TruthyNum(call.val.userAvgRating)
           ELSE /\ TruthyNum(call.val.userAvgRating)
                /\ call.val.userAvgRating.n * Cardinality(valid)
                      = SumValues(valid) * call.val.userAvgRating.d

\* C12: with everything else fixed, the score does not decrease when (a) the
\* rating of a genre-matching candidate goes from below 8.0 to 8.0 or above,
\* (b) the candidate gains one more match (1 to 2, or 2 to 3), (c) its
\* recency bucket improves (older than 10 years, within 10, within 5).
RatingVariants(movie) == {[movie EXCEPT !.imdb = r] : r \in {75, 79, 80, 86}}
YearVariants(movie) == {[movie EXCEPT !.year = y] : y \in {2010, 2018, 2023}}
MatchVariants(movie) ==
    {[movie EXCEPT !.genre = g] : g \in {"Suç", "Drama"}}
      \cup {[movie EXCEPT !.director = d] :
               d \in {"Michael Mann", "Brian De Palma", "Christopher Nolan"}}
      \cup {[movie EXCEPT !.cast = c] :
               c \in {<<"Al Pacino">>, <<"Tom Cruise">>, <<"Leonardo DiCaprio">>}}
GenreIn(movie, prefs) ==
    TruthyStr(movie.genre) /\ normalizeString(movie.genre) \in Range(prefs.genres)
DirectorIn(movie, prefs) ==
    TruthyStr(movie.director) /\ normalizeString(movie.director) \in Range(prefs.directors)
ActorIn(movie, prefs) ==
    \E a \in Range(movie.cast) : normalizeString(a) \in Range(prefs.actors)
MatchesOf(movie, prefs) ==
    (IF GenreIn(movie, prefs) THEN 1 ELSE 0) + (IF DirectorIn(movie, prefs) THEN 1 ELSE 0)
       + (IF ActorIn(movie, prefs) THEN 1 ELSE 0)
RecencyBucket(movie) ==
    IF movie.year = Undef \/ movie.year = 0 THEN 0
    ELSE IF CurrentYear - movie.year <= 5 THEN 2
    ELSE IF CurrentYear - movie.year <= 10 THEN 1 ELSE 0
ScoreOfVariant(v) == calculateRecommendationScore(v, scoring.prefs).score
C12_ScoreMonotone ==
    scoring.done =>
        /\ \A v \in RatingVariants(scoring.movie) :
              ( /\ GenreIn(scoring.movie, scoring.prefs)
                /\ getMovieRating(scoring.movie) < 80
                /\ getMovieRating(v) >= 80 )
                 => ScoreOfVariant(v) >= scoring.result.score
        /\ \A v \in MatchVariants(scoring.movie) :
              ( /\ MatchesOf(scoring.movie, scoring.prefs) \in {1, 2}
                /\ MatchesOf(v, scoring.prefs) = MatchesOf(scoring.movie, scoring.prefs) + 1 )
                 => ScoreOfVariant(v) >= scoring.result.score
        /\ \A v \in YearVariants(scoring.movie) :
              ( /\ scoring.movie.year # Undef
                /\ RecencyBucket(v) > RecencyBucket(scoring.movie) )
                 => ScoreOfVariant(v) >= scoring.result.score

\* C12 witness: a genre-matching candidate rated below 8.0 holds the proximity
\* bonus, and loses it when its rating goes to 8.0 or above.
C12_Witness ==
    /\ scoring.done
    /\ GenreIn(scoring.movie, scoring.prefs)
    /\ getMovieRating(scoring.movie) < 80
    /\ \E v \in RatingVariants(scoring.movie) :
          /\ getMovieRating(v) >= 80
          /\ ScoreOfVariant(v) < scoring.result.score + 50

\* C13: every returned list is ordered by recommendationScore descending and,
\* among equal scores, by recommendationRating descending.
InOrder(a, b) ==
    \/ a.recommendationScore > b.recommendationScore
    \/ /\ a.recommendationScore = b.recommendationScore
       /\ a.recommendationRating >= b.recommendationRating
C13_RankingOrder ==
    (rec.pc = "done" /\ rec.status = "returned") =>
        \A i \in 1..(Len(rec.out) - 1) : InOrder(rec.out[i], rec.out[i + 1])

\* C13 witness: a list that went through the diversity pass holds a tie of
\* scores broken by the rating, and a step down in score.
C13_Witness ==
    /\ rec.pc = "done" /\ rec.status = "returned" /\ rec.path = "full"
    /\ \E i \in 1..(Len(rec.out) - 1) :
          /\ rec.out[i].recommendationScore = rec.out[i + 1].recommendationScore
          /\ rec.out[i].recommendationRating > rec.out[i + 1].recommendationRating
    /\ \E i \in 1..(Len(rec.out) - 1) :
          rec.out[i].recommendationScore > rec.out[i + 1].recommendationScore

\* C14: a returned list has at most limit entries, each with a score above 0.
C14_LimitAndPositive ==
    (rec.pc = "done" /\ rec.status = "returned") =>
        /\ Len(rec.out) <= rec.args.limit
        /\ \A i \in DOMAIN rec.out : rec.out[i].recommendationScore > 0

\* C14 witness: a call filled its limit from an inventory that also holds a
\* candidate which is neither favorite nor watched and scores 0.
C14_Witness ==
    /\ rec.pc = "done" /\ rec.status = "returned"
    /\ rec.args.limit >= 3
    /\ Len(rec.out) = rec.args.limit
    /\ \E m \in Range(NormalizedLocalMovies(rec.args.localMovies)) :
          /\ ~isFavorite(m, rec.args.favorites)
          /\ ~isWatched(m, rec.args.watchedMovies, rec.args.allMoviesForLookup)
          /\ calculateRecommendationScore(m, precomputePreferences(rec.preferences)).score = 0


\* ---- C15 -------------------------------------------------------------------
CountKind(queries, kind) == Cardinality({i \in DOMAIN queries : queries[i][1] = kind})
\* result[k] of an issued search, for k within the first n results
AmongFirst(movie, results, kind, n) ==
    \E i \in DOMAIN results :
        /\ results[i].query[1] = kind
        /\ results[i].ok
        /\ \E k \in DOMAIN results[i].movies : k <= n /\ results[i].movies[k] = movie

\* C15: a getRecommendedMovies call issues no catalog query when useAPI is
\* false, when favorites and watched history are both empty, or when the
\* profile has no genres, directors or actors; otherwise it issues at most 3
\* genre, 2 director and 2 actor queries, and a candidate that is not a local
\* movie is among the first 10 results of a genre query or the first 5 of a
\* director or actor query.
C15_QueryBudget ==
    rec.pc # "idle" =>
        /\ ( \/ ~rec.args.useAPI
             \/ NothingToLearn(rec.args)
             \/ NoPreferences(rec.preferences) ) => rec.issued = <<>>
        /\ CountKind(rec.issued, "genre") <= 3
        /\ CountKind(rec.issued, "director") <= 2
        /\ CountKind(rec.issued, "actor") <= 2
        /\ \A q \in Range(rec.issued) : q[1] \in {"genre", "director", "actor"}
        /\ Len(rec.results) <= Len(rec.issued)
        /\ \A m \in Range(rec.allMovies) :
              \/ m \in Range(NormalizedLocalMovies(rec.args.localMovies))
              \/ AmongFirst(m, rec.results, "genre", 10)
              \/ AmongFirst(m, rec.results, "director", 5)
              \/ AmongFirst(m, rec.results, "actor", 5)

\* a call whose profile has more names than are queried and whose searches
\* resolve to more results than are kept
C15_Witness ==
    /\ rec.pc = "done"
    /\ rec.status = "returned"
    /\ Len(rec.preferences.genres) > 3
    /\ Len(rec.preferences.directors) > 2
    /\ Len(rec.preferences.actors) > 2
    /\ Len(rec.issued) = 7
    /\ \E i \in DOMAIN rec.results :
          /\ rec.results[i].query[1] = "genre"
          /\ Len(rec.results[i].movies) > 10
    /\ \E i \in DOMAIN rec.results :
          /\ rec.results[i].query[1] = "director"
          /\ Len(rec.results[i].movies) > 5
    /\ \E m \in Range(rec.allMovies) :
          m \notin Range(NormalizedLocalMovies(rec.args.localMovies))

\* ---- C16 -------------------------------------------------------------------
HasTitle(movies, title) == \E j \in DOMAIN movies : LowerTrim(movies[j].title) = LowerTrim(title)

\* C16: when some of the issued genre, director and actor queries reject while
\* others resolve, every result a resolved query kept is represented in the
\* candidate set and every local movie is kept.
C16_PartialGroupSuccess ==
    ( /\ rec.pc = "done"
      /\ \E i \in DOMAIN rec.results : ~rec.results[i].ok
      /\ \A i \in DOMAIN rec.results : \A m \in Range(rec.results[i].taken) : m.title # NoStr
      /\ \A m \in Range(rec.args.localMovies) : m.title # NoStr )
    => /\ \A i \in DOMAIN rec.results :
             rec.results[i].ok =>
                 \A m \in Range(rec.results[i].taken) : HasTitle(rec.allMovies, m.title)
       /\ \A m \in Range(NormalizedLocalMovies(rec.args.localMovies)) :
             HasTitle(rec.allMovies, m.title)

\* ---- C17 -------------------------------------------------------------------
\* The positions of a list that are the first with their title.
FirstPositions(movies) ==
    {k \in DOMAIN movies :
        \A j \in DOMAIN movies : j < k => LowerTrim(movies[j].title) # LowerTrim(movies[k].title)}
NthOf(positions, n) == CHOOSE k \in positions : Cardinality({x \in positions : x < k}) = n - 1
\* The lists a finished call with catalog queries handed to the merge.
MergedLocal == NormalizedLocalMovies(rec.args.localMovies)
MergedApi == Flatten([i \in DOMAIN rec.results |-> rec.results[i].taken])
MergeRan ==
    /\ rec.pc = "done"
    /\ rec.results # <<>>
    /\ \A i \in DOMAIN rec.results : rec.results[i].ok
    /\ ~MergeThrows(MergedLocal, MergedApi)

\* C17: the merged list holds, in order of first occurrence over the local
\* list followed by the API list, exactly one movie per lowercase-trimmed
\* title: no two entries share a title, every local title is represented by its
\* first local entry, an API entry appears only if no earlier entry has its
\* title, and merging the result with the empty list returns it unchanged.
C17_MergeFirstWins ==
    MergeRan =>
        LET input == MergedLocal \o MergedApi
            keep  == FirstPositions(input)
            out   == rec.allMovies
        IN /\ Len(out) = Cardinality(keep)
           /\ \A n \in DOMAIN out : out[n] = input[NthOf(keep, n)]
           /\ \A a, b \in DOMAIN out :
                 a # b => LowerTrim(out[a].title) # LowerTrim(out[b].title)
           /\ \A k \in FirstPositions(MergedLocal) : \E n \in DOMAIN out : out[n] = MergedLocal[k]
           /\ mergeLocalAndAPIResults(out, <<>>) = out

\* a merge that dropped a second local entry and an API entry for their titles
C17_Witness ==
    /\ MergeRan
    /\ FirstPositions(MergedLocal) # DOMAIN MergedLocal
    /\ \E m \in Range(MergedApi) : m \notin Range(rec.allMovies)
    /\ \E m \in Range(MergedApi) : m \in Range(rec.allMovies)


\* ---- C18 -------------------------------------------------------------------
\* A finished searchMoviesByGenre call for a merged category that missed the cache.
MergedGenreMiss(op) ==
    /\ op.kind = "genre"
    /\ op.pc = "done"
    /\ GenreMapped(op.args.genre)
    /\ IsMergedCategory(op.args.genre)
    /\ op.lookup.done
    /\ ~op.lookup.hit

\* C18: for a display genre mapped to two provider genre ids, a
\* searchMoviesByGenre call that misses the cache issues exactly two discover
\* queries, one per id, whether or not the other one fails, and its result
\* never holds two movies with the same id.
C18_MergedGenreTwoQueries ==
    \A s \in Slots :
        MergedGenreMiss(ops[s]) =>
            /\ catFetches[<<s, 0>>] = 2
            /\ ~ops[s].out.null
            /\ \A a, b \in DOMAIN ops[s].out.val :
                  a # b => ops[s].out.val[a].id # ops[s].out.val[b].id

\* ---- C19 -------------------------------------------------------------------
\* C19: a movie with a release date is classified released exactly when the
\* date is not after the calendar day of the call, in every time zone; a movie
\* with a year only exactly when the year is not after the current year; a
\* movie with neither is released.
C19_ReleaseClassification ==
    classified.done =>
        LET today == LocalDay(classified.instant, classified.tz)
            movie == classified.movie
        IN classified.released <=>
              IF movie.release_date # Undef THEN movie.release_date <= today
              ELSE IF movie.year # Undef THEN movie.year <= YearOfDay(today)
              ELSE TRUE

\* ---- C21 -------------------------------------------------------------------
FracEq(x, y) == x.n * y.d = y.n * x.d
\* The mean of the liked movies' ratings, favorites weighted 1.5 and
\* watched-only movies 1.
WeightedBaseline(favorites, watchedMoviesData) ==
    LET favR == RatingsOf(favorites)
        watR == RatingsOf(watchedMoviesData)
    IN Frac(3 * SumSeq(favR) + 2 * SumSeq(watR), 3 * Len(favR) + 2 * Len(watR))

\* C21: for a non-empty working set minRating = max(7.5, b - 0.5), b being the
\* mean of the explicit ratings if there is one and otherwise the weighted
\* average of the liked movies' ratings (favorites 1.5, watched 1), and minRating
\* lies between 7.5 and 10; for the empty working set minRating = 0.
C21_RatingFloor ==
    Len(prefCalls) >= 1 =>
        LET call  == prefCalls[1]
            data  == WatchedMoviesData(call.watchedMovies, call.allMovies)
            valid == ValidRatings(call.userRatings)
            rated == Len(RatingsOf(call.favorites)) + Len(RatingsOf(data)) > 0
            b     == IF valid # {} THEN Frac(SumValues(valid), Cardinality(valid))
                     ELSE WeightedBaseline(call.favorites, data)
        IN IF Len(call.favorites) + Len(data) = 0
           THEN FracEq(call.val.minRating, Frac(0, 1))
           ELSE /\ FracLeq(Frac(75, 1), call.val.minRating)
                /\ FracLeq(call.val.minRating, Frac(100, 1))
                /\ (valid # {} \/ rated) =>
                      FracEq(call.val.minRating, FracMax(Frac(75, 1), FracSub(b, Frac(5, 1))))

\* ---- C22 -------------------------------------------------------------------
\* The frequency the table multiplies by: the count the profile keeps under
\* the label as the candidate spells it, a label the profile has not counted
\* weighing 1.
TableFrequency(freq, label) ==
    LET counted == {f \in freq : f[1] = label}
    IN IF counted = {} THEN 1 ELSE Max(1, (CHOOSE f \in counted : TRUE)[2])
\* The first actor of the profile that is in the cast, as the cast spells it.
TableActor(movie, prefs) ==
    LET hits  == {k \in DOMAIN prefs.actors :
                     \E a \in Range(movie.cast) : normalizeString(a) = prefs.actors[k]}
        first == CHOOSE k \in hits : \A j \in hits : k <= j
        at    == {i \in DOMAIN movie.cast : normalizeString(movie.cast[i]) = prefs.actors[first]}
    IN movie.cast[CHOOSE i \in at : \A j \in at : i <= j]
\* |rating - userAvgRating| <= bound, in tenths
WithinOfAverage(rating, avg, bound) ==
    /\ 0 - bound * avg.d <= rating * avg.d - avg.n
    /\ rating * avg.d - avg.n <= bound * avg.d
\* The scoring table, row by row; 30 x min(f, 1.5) and 20 x min(f, 1.5) are 45
\* and 30 from a frequency of 2 on.
TableScore(movie, prefs) ==
    LET rating  == getMovieRating(movie)
        matches == MatchesOf(movie, prefs)
    IN (IF GenreIn(movie, prefs)
        THEN (IF rating >= 80 THEN 100 ELSE 50)
               * Min(TableFrequency(prefs.genreFrequency, movie.genre), 2)
        ELSE 0)
       + (IF DirectorIn(movie, prefs)
          THEN (IF TableFrequency(prefs.directorFrequency, movie.director) >= 2
                THEN 45 ELSE 30)
          ELSE 0)
       + (IF ActorIn(movie, prefs)
          THEN (IF TableFrequency(prefs.actorFrequency, TableActor(movie, prefs)) >= 2
                THEN 30 ELSE 20)
          ELSE 0)
       + (IF matches >= 2 THEN 25 ELSE 0)
       + (IF matches = 3 THEN 50 ELSE 0)
       + (IF prefs.userAvgRating.d # 0 /\ prefs.userAvgRating.n # 0
          THEN (IF WithinOfAverage(rating, prefs.userAvgRating, 5) THEN 15
                ELSE IF WithinOfAverage(rating, prefs.userAvgRating, 10) THEN 10 ELSE 0)
          ELSE 0)
       + (IF RecencyBucket(movie) = 2 THEN 5 ELSE IF RecencyBucket(movie) = 1 THEN 3 ELSE 0)

C23_StandardFilter ==
    filtered.done =>
        \A m \in Range(filtered.out) :
            /\ Len(m.genre_ids) > 0
            /\ isMovieReleased(m)
            /\ ~TitleBlocked(m.title)
            /\ ~LanguageExcluded(m.original_language)
            /\ 10402 \notin Range(m.genre_ids)

\* ---- C24 -------------------------------------------------------------------
\* C24: searchMoviesByGenre returns no movie whose genres are incompatible
\* with a queried genre: Animation with Drama, Horror, Crime, Documentary or
\* Mystery under Animation; Horror with Animation, Family, Comedy or Musical
\* under Horror; Drama with Animation under Drama; Animation with Documentary
\* under either.
C24_NoIncompatiblePair ==
    (filtered.done /\ filtered.kind = "genre") =>
        \A m \in Range(filtered.out) :
            \A selected \in Range(GENRE_MAP[filtered.args.genre]) :
                ~hasIncompatibleGenres(m, selected)

\* ---- C25 -------------------------------------------------------------------
\* C25: a movie carrying the Family genre is returned only by a genre search
\* whose target genre is Comedy.
C25_FamilyOnlyUnderComedy ==
    filtered.done =>
        \A m \in Range(filtered.out) :
            10751 \in Range(m.genre_ids) =>
                /\ filtered.kind = "genre"
                /\ 35 \in Range(GENRE_MAP[filtered.args.genre])

\* ---- C26 -------------------------------------------------------------------
\* The popularity the catalog gave for a returned movie.
PopularityOf(m) ==
    (CHOOSE r \in Range(filtered.body) \cup Range(filtered.body2) : r.id = m.tmdbId).popularity

\* C26: the list searchMoviesByGenre returns for sortBy = 'most_liked' is in
\* order of non-increasing popularity.
C26_MostLikedByPopularity ==
    (filtered.done /\ filtered.kind = "genre" /\ filtered.args.sortBy = "most_liked") =>
        \A i \in 1..(Len(filtered.out) - 1) :
            PopularityOf(filtered.out[i]) >= PopularityOf(filtered.out[i + 1])

\* C27: on the path that runs the diversity pass, the returned list is the
\* ranked list walked in order, a candidate dropped exactly when 3 candidates
\* accepted before it share its director or a member of its cast is in 2
\* candidates accepted before it, so that a candidate dropped for an actor
\* limit does not count against its director; cut to the limit.
RECURSIVE GreedyAccepted(_, _, _)
GreedyAccepted(ranked, i, accepted) ==
    IF i > Len(ranked) THEN accepted
    ELSE LET movie == ranked[i].movie
             dirFull == /\ TruthyStr(movie.director)
                        /\ DirectorEntries(accepted, movie.director) >= 3
             actFull == \E a \in Range(movie.cast) : ActorEntries(accepted, a) >= 2
         IN GreedyAccepted(ranked, i + 1,
                IF dirFull \/ actFull THEN accepted ELSE Append(accepted, ranked[i]))
RankedOf(call) ==
    SortScored(ScoreBatch(call.allMovies, call.args, precomputePreferences(call.preferences)))
C27_GreedyDiversity ==
    (rec.pc = "done" /\ rec.status = "returned" /\ rec.path = "full") =>
        rec.out = Take(GreedyAccepted(RankedOf(rec), 1, <<>>), rec.args.limit)

(***************************************************************************)
(* The scan over inventories of more than one batch.                       *)
(***************************************************************************)
\* A record of a generated inventory, as the tests of the early termination
\* build them: one director, no cast; every stride-th record is of the crime
\* genre, and the ratings differ from record to record.
LargeMovie(i, stride) ==
    LocalMovie(100 + i, "movie " \o ToString(i), IF i % stride = 0 THEN "Suç" ELSE "Drama",
               "Unknown", <<>>, 60 + (i % 30), 2000)
largeMovieList(length, stride) == [i \in 1..length |-> LargeMovie(i, stride)]
ScanLengths == {50, 51, 120}
ScanStrides == {5, 10, 25}
ScanArgs ==
    [ localMovies : {largeMovieList(n, k) : n \in ScanLengths, k \in ScanStrides},
      favorites : {<<LocScarface>>, <<LocHeat, LocScarface>>}, useAPI : {FALSE},
      limit : Limits,
      watchedMovies : {<<>>, <<WId(IdNum(110))>>, <<WId(IdNum(150))>>},
      allMoviesForLookup : {<<>>}, userRatings : {{}} ]

ScanNext ==
    \E args \in ScanArgs : RecCall(args) /\ UNCHANGED <<now, rateVars, catVars, relVars>>
SpecScan == RateInit /\ [][ScanNext]_vars

\* C28: the candidates are scanned in batches of 50 in inventory order. At the
\* end of the first batch by which 2 x limit candidates that are not excluded
\* and score above 0 have accumulated, the call returns the limit highest
\* ranked of the candidates of the batches so far, and no movie of a later
\* batch has been visited; when no batch reaches that count, every movie has
\* been visited.
BatchesOf(call) == (Len(call.allMovies) + 49) \div 50
ThroughBatch(call, b) == Min(50 * b, Len(call.allMovies))
ScoredThrough(call, b) ==
    ScoreBatch(SubSeq(call.allMovies, 1, ThroughBatch(call, b)), call.args,
               precomputePreferences(call.preferences))
StopBatches(call) ==
    {b \in 1..BatchesOf(call) : Len(ScoredThrough(call, b)) >= 2 * call.args.limit}
FirstStop(call) == CHOOSE b \in StopBatches(call) : \A c \in StopBatches(call) : b <= c
RateFairness ==
    /\ WF_vars(Tick /\ UNCHANGED <<catVars, recVars, relVars>>)
    /\ \A c \in Callers :
          WF_vars(CheckRateLimitResume(c) /\ UNCHANGED <<catVars, recVars, relVars>>)
SpecRateLive == RateInit /\ [][RateNext]_vars /\ RateFairness

\* C29: a call made more than the window after windowStart sets the counter
\* to 0 and windowStart to now and then counts itself; a call made on an
\* exhausted quota with e < RATE_LIMIT_WINDOW elapsed since windowStart is
\* suspended until RATE_LIMIT_WINDOW - e later, resumes at that instant and
\* not before, and then starts a window at the time of the resume with the
\* counter at 0 and counts itself; every suspended call whose timer is due
\* within the run of the clock returns.
CallBy(c) ==
    /\ rlPc[c] = "idle" /\ rlCalls' = rlCalls + 1
    /\ (rlPc'[c] = "waiting" \/ rlDoneBy'[c] = rlDoneBy[c] + 1)
ResumeBy(c) == rlPc[c] = "waiting" /\ rlPc'[c] = "idle"
WindowStep(c) ==
    LET e == now - windowStart
    IN /\ (CallBy(c) /\ e > RATE_LIMIT_WINDOW) =>
             /\ windowStart' = now /\ requestCount' = 1
             /\ rlPc'[c] = "idle" /\ rlDoneBy'[c] = rlDoneBy[c] + 1
       /\ (CallBy(c) /\ e < RATE_LIMIT_WINDOW /\ requestCount >= RATE_LIMIT_REQUESTS) =>
             /\ rlPc'[c] = "waiting" /\ rlWake'[c] = now + (RATE_LIMIT_WINDOW - e)
             /\ rlDoneBy'[c] = rlDoneBy[c]
             /\ UNCHANGED <<requestCount, windowStart>>
       /\ (rlPc[c] = "waiting" /\ rlPc'[c] = "waiting") =>
             /\ rlWake'[c] = rlWake[c]
             /\ now' <= rlWake[c]
       /\ ResumeBy(c) =>
             /\ now = rlWake[c]
             /\ windowStart' = now /\ requestCount' = 1
             /\ rlDoneBy'[c] = rlDoneBy[c] + 1
C29_WindowProtocol ==
    /\ [][\A c \in Callers : WindowStep(c)]_vars
    /\ \A c \in Callers : (rlPc[c] = "waiting" /\ rlWake[c] <= MaxTime) ~> (rlPc[c] = "idle")

\* C29 witness: a suspended call has resumed; only a resume puts windowStart
\* exactly one window after the first.
C29_Witness ==
    /\ windowStart = RATE_LIMIT_WINDOW
    /\ requestCount >= 1
    /\ rlCalls > RATE_LIMIT_REQUESTS
    /\ \E c \in Callers : rlDoneBy[c] >= 1 /\ rlPc[c] = "idle"

\* C30: the profile a call of extractUserPreferences computes (the first call
\* of a run, which no memo serves) counts every movie of the set union of the
\* favorites and the resolved watched movies once: the frequency of a genre,
\* of a director and of an actor is the number of movies of that union that
\* carry it, and a watched id the lookup list does not resolve adds nothing.
WorkingSet(call) ==
    Range(call.favorites) \cup Range(WatchedMoviesData(call.watchedMovies, call.allMovies))
C30_WorkingSetUnion ==
    (prefCalls # <<>> /\ prefCalls[1].val.full) =>
        LET call == prefCalls[1]
            union == WorkingSet(call)
        IN /\ \A f \in call.val.genreFrequency :
                 f[2] = Cardinality({movie \in union : movie.genre = f[1]})
           /\ \A f \in call.val.directorFrequency :
                 f[2] = Cardinality({movie \in union : movie.director = f[1]})
           /\ \A f \in call.val.actorFrequency :
                 f[2] = Cardinality({movie \in union : f[1] \in Range(movie.cast)})

====
